---- MODULE Spec2Model ----
(***************************************************************************)
(* Arduino Mega VGA framebuffer on an MSM514262 multiport DRAM             *)
(* (mega_edo_fb8_320x240_fix.ino): the deferred update ring, the two timer *)
(* interrupt handlers and the DRAM driver, as a state machine.             *)
(*                                                                         *)
(* Contexts.  The background code (setup/loop and whatever it calls) runs  *)
(* while isr = "none".  An AVR interrupt handler runs with the global      *)
(* interrupt flag cleared, so a handler is never preempted by the          *)
(* background code nor by the other handler.                               *)
(*                                                                         *)
(* Time.  The hardware timers are counted in ticks of CyclesPerTick CPU    *)
(* cycles, the largest unit that divides the line period, the frame-timer  *)
(* period and the frame-timer compare value.                               *)
(*                                                                         *)
(* Specifications.  Spec: drawPixel against the frame interrupt.           *)
(* SpecTimers: all three contexts under the real timers.  SpecSetup:       *)
(* setup() from reset, then SpecTimers.  SpecRect: drawRect against the    *)
(* frame interrupt.  SpecReport: loop() with its status report.            *)
(* SpecActiveLine, SpecDrain: the active-line test and the drain loop on   *)
(* their own.  SpecOrig: the handlers of mega_edo_fb8_320x240.ino.         *)
(***************************************************************************)
EXTENDS Integers, Sequences, FiniteSets, TLC

\* ------------------------------------------------------------------------
\* Program constants (mega_edo_fb8_320x240_fix.ino)
\* ------------------------------------------------------------------------
F_CPU_MHZ     == 16
H_VISIBLE     == 320
V_VISIBLE     == 240
V_FRONT_PORCH == 2
V_SYNC_PULSE  == 2
V_BACK_PORCH  == 21
V_TOTAL       == V_VISIBLE + V_FRONT_PORCH + V_SYNC_PULSE + V_BACK_PORCH

FRAMEBUFFER_WIDTH  == H_VISIBLE
FRAMEBUFFER_HEIGHT == V_VISIBLE
DRAM_ROWS == 512
DRAM_COLS == 512

LINE_US         == 40
REFRESH_FRAMES  == 64
\* Frames between two status reports of loop().
REPORT_FRAMES   == 300
\* CPU clocks of the instructions of one refresh cycle (cbi/sbi 2, nop 1).
REFRESH_CYCLE_CLOCKS == 15
\* Refresh interval of the DRAM in milliseconds (edo_dram_mega2.ino).
REFRESH_INTERVAL_MS == 8
\* Range of a 16-bit register or variable.
UINT16 == 2 ^ 16

\* setupTimers (lines 381-410).  h_total_cycles is a uint16_t, v_total_cycles
\* a uint32_t; ICR1, OCR1A, ICR5 and OCR5A are 16-bit registers.
h_total_cycles == (F_CPU_MHZ * LINE_US) % UINT16
ICR1  == (h_total_cycles - 1) % UINT16
OCR1A == (h_total_cycles - 1) % UINT16
v_total_cycles == h_total_cycles * V_TOTAL
ICR5  == (v_total_cycles - 1) % UINT16
OCR5A == (v_total_cycles - h_total_cycles * V_SYNC_PULSE) % UINT16

\* Fast PWM with TOP = ICRn: the counter runs 0..ICRn and starts again.
Timer1Period == ICR1 + 1
Timer5Period == ICR5 + 1

RECURSIVE GCD(_, _)
GCD(a, b) == IF b = 0 THEN a ELSE GCD(b, a % b)
CyclesPerTick == GCD(GCD(Timer1Period, Timer5Period), OCR5A)
Timer1Ticks   == Timer1Period \div CyclesPerTick
Timer5Ticks   == Timer5Period \div CyclesPerTick
OCR5ATick     == OCR5A \div CyclesPerTick
\* Refresh cycles that fit into one tick.
RefreshCyclesPerTick == CyclesPerTick \div REFRESH_CYCLE_CLOCKS
\* The refresh interval in ticks.
RetentionTicks == (REFRESH_INTERVAL_MS * 1000 * F_CPU_MHZ) \div CyclesPerTick

\* ------------------------------------------------------------------------
\* Bounds of the model
\* ------------------------------------------------------------------------
\* Number of slots of update_buffer (512 in the program).
MAX_UPDATE_BUFFER_SIZE == 3
\* Radix of one byte of a ring index (256 in the program): the 16-bit
\* indices are read by the 8-bit CPU one byte at a time.
ByteRadix == 2
\* Frames the frame interrupt is followed for when it is requested at
\* arbitrary moments (Spec).
MaxFrames == 2
\* Updates offered beyond the number of slots in one burst without a drain.
OverflowExtra == 5
\* Frames the timers are followed for (SpecTimers), and the frames during
\* which the background code draws there.
TimerFrames == 64
DrawFrames  == 1

\* Inputs offered to drawPixel: two in-bounds pixels, in two colors, one
\* pixel right of the framebuffer and one below it.  Pixel (65, 104) has linear index 33345
\* and lives in cell (65, 65); pixel (193, 1) has linear index 513 and lives
\* in cell (1, 1).  Both cells are among those clearFramebuffer has written.
ModelPixels == { <<65, 104>>, <<193, 1>> }
ModelColors == { 1, 2 }
DrawInputs  == { <<65, 104, 1>>, <<65, 104, 2>>, <<193, 1, 2>>,
                 <<FRAMEBUFFER_WIDTH, 0, 1>>, <<0, FRAMEBUFFER_HEIGHT, 1>> }

VARIABLES
  \* --- deferred update ring (lines 94-97)
  update_buffer, update_buffer_write_index, update_buffer_read_index,
  buffer_overflow,
  \* --- VGA state (lines 100-106)
  current_scanline, current_video_line, vblank_active, frame_count,
  timing_error,
  \* --- hardware: timers, interrupt flags, pixel clock, DRAM array
  TCNT1, TCNT5, OCF1A, OCF5A, TCCR3B, dram, sam,
  \* --- control: background position, drawPixel's locals and result,
  \*     running handler and its position, refreshDRAM's loop counter,
  \*     whether the running handler step has time left to span a tick
  pc, dp, ret, isr, refresh_i, isr_credit,
  \* --- history: what the claims observe
  h_owed, h_stray, h_burst, h_burst_ok, h_dropped, h_last,
  h_snapshot, h_run_writes, h_lines_since_frame, h_dirty,
  \* --- bench for the pure functions
  fn_in, fn_out,
  \* --- bench for the drain loop on a ring of the program's size
  drain_read, drain_write, drain_cycles, drain_pc,
  \* --- history: ticks since the watched DRAM row was last refreshed
  h_row_age,
  \* --- position of setup()
  setup_pc,
  \* --- history: x and y of the last drawPixel call if they lie outside
  \*     the framebuffer, <<>> otherwise
  h_oob,
  \* --- drawRect's parameters and locals, and its position
  dr,
  \* --- loop(): its static last_frame and its position
  last_frame, loop_pc,
  \* --- mega_edo_fb8_320x240.ino: its globals (lines 68-79), the global
  \*     interrupt enable bit, the frame handler's position and loop
  \*     counters, drawPixel's position and loaded index, the arguments of
  \*     the last writeDram and transferRamToSam calls, and the frame
  \*     interrupts served so far
  orig_buffer, update_buffer_index, vBlank_in_progress, currentScanline,
  currentRow, sreg_I, handler_pc, apply_i, refresh_row, draw_pc, draw_index,
  last_writeDram, last_transfer, h_orig_frames,
  \* --- per slot of that sketch's update_buffer, the times the entry it
  \*     holds has been written to the DRAM (NoColor: no entry stored yet)
  h_orig_writes,
  \* --- the 4-bit driver (src/unnamed/part_002): the levels the sketch
  \*     drives on its pins, the DRAM chip behind them, the position in
  \*     writeDram or readDram with its parameters and locals, and the last
  \*     completed call with the value a read is expected to return
  drv_pins, chip, drv_pc, h_driver,
  \* --- mega_edo_fb8_320x240_fix.ino on its ports: the I/O registers the
  \*     DRAM functions write, the position in writeDRAM, transferRowToSAM
  \*     or refreshDRAM with its parameters, and what the running call has
  \*     done to the strobes so far
  io, pin_pc, h_pins,
  \* --- src/unnamed/part_001: the microsecond counter micros() returns
  \*     and lastRefreshMicros, both 32 bits wide as <<high, low>> halves;
  \*     the refreshIfNeeded calls made and the refreshAllRows runs among
  \*     them; the microseconds that really passed since the last run
  micros, lastRefreshMicros, refresh_calls, refresh_runs, h_elapsed,
  \* --- where a pixel lives: a pixel, the row and column writeDRAM is
  \*     called with for it (<<>> before the call), and the rows
  \*     transferRowToSAM has been called with, video line 0 first
  map_pixel, map_cell, h_transferred,
  \* --- the ring of mega_edo_fb8_320x240_fix.ino at its own size (512
  \*     slots, indices of two 8-bit bytes): the ring and its indices,
  \*     buffer_overflow, the position and locals of the running drawPixel
  \*     call and what the last call returned, the position of the frame
  \*     handler, its last writeDRAM call, the calls made, and the most
  \*     unread entries the ring held at any moment of the last call
  wide_buffer, wide_write_index, wide_read_index, wide_overflow, wide_pc,
  wide_dp, wide_ret, wide_isr, wide_last_write, wide_calls, h_wide_max,
  \* --- mega_edo/fb320x240_2ok.ino: the time since reset in microseconds,
  \*     lastRefreshTime and refreshCounter, the passes of loop() made, and
  \*     the microseconds passed since the last refresh cycle
  clock_us, lastRefreshTime, refreshCounter, loop_passes, h_since_refresh

queueVars  == <<update_buffer, update_buffer_write_index,
                update_buffer_read_index, buffer_overflow>>
vgaVars    == <<current_scanline, current_video_line, vblank_active,
                frame_count, timing_error>>
timerVars  == <<TCNT1, TCNT5, OCF1A, OCF5A, TCCR3B, sam>>
ctlVars    == <<pc, dp, ret, isr, refresh_i, isr_credit>>
histVars   == <<h_owed, h_stray, h_burst, h_burst_ok, h_dropped, h_last,
                h_snapshot, h_run_writes, h_lines_since_frame, h_dirty>>
drainVars  == <<drain_read, drain_write, drain_cycles, drain_pc>>
loopVars   == <<last_frame, loop_pc>>
origVars   == <<orig_buffer, update_buffer_index, vBlank_in_progress,
                currentScanline, currentRow, sreg_I, handler_pc, apply_i,
                refresh_row, draw_pc, draw_index, last_writeDram,
                last_transfer, h_orig_frames, h_orig_writes>>
driverVars == <<drv_pins, chip, drv_pc, h_driver>>
portVars   == <<io, pin_pc, h_pins>>
timedVars  == <<micros, lastRefreshMicros, refresh_calls, refresh_runs,
                h_elapsed>>
mapVars    == <<map_pixel, map_cell, h_transferred>>
wideVars   == <<wide_buffer, wide_write_index, wide_read_index,
                wide_overflow, wide_pc, wide_dp, wide_ret, wide_isr,
                wide_last_write, wide_calls, h_wide_max>>
clockVars  == <<clock_us, lastRefreshTime, refreshCounter, loop_passes,
                h_since_refresh>>
ioVars     == <<driverVars, portVars, timedVars, mapVars, wideVars,
                clockVars>>
lateVars   == <<dr, loopVars, origVars, ioVars>>
auxVars    == <<setup_pc, h_oob, lateVars>>
benchRest  == <<fn_in, fn_out, drainVars, auxVars>>
benchVars  == <<benchRest, h_row_age>>
vars == <<queueVars, vgaVars, timerVars, dram, ctlVars, histVars, benchVars>>

\* ------------------------------------------------------------------------
\* DRAM addressing (lines 119-133, 136-174, 273-285)
\* ------------------------------------------------------------------------
\* The pattern setDRAMAddress puts on the nine address lines: A0-A1 from
\* col bits 0-1, A2-A5 from col bits 2-5, A6-A8 from row bits 0-2.
setDRAMAddress(row, col) ==
  (col % 4) + 4 * ((col \div 4) % 16) + 64 * (row % 8)

\* The cell a pixel lives in: linear index split by DRAM_COLS.
pixel_index(x, y) == y * FRAMEBUFFER_WIDTH + x
dram_row(x, y)    == pixel_index(x, y) \div DRAM_COLS
dram_col(x, y)    == pixel_index(x, y) % DRAM_COLS
DramCellOf(x, y)  == <<dram_row(x, y), dram_col(x, y)>>

\* The cell the chip selects in one writeDRAM cycle: it latches the address
\* lines as the row address when RAS falls and as the column address when
\* CAS falls; writeDRAM sets the lines once, before RAS.
SelectedCell(row, col) ==
  <<setDRAMAddress(row, col), setDRAMAddress(row, col)>>

\* writeDRAM: the low four bits of color (DATA_PORT_DDR = 0x0F) go to the
\* selected cell.
writeDRAM(d, row, col, color) ==
  LET cell == SelectedCell(row, col)
  IN  IF cell \in DOMAIN d THEN [d EXCEPT ![cell] = color % 16] ELSE d

\* A row of the array no row transfer and no write of the model selects,
\* and the ticks since its last refresh after a RAS cycle on a row: every
\* RAS cycle refreshes the row it selects.
WatchedRow == DRAM_ROWS - 1
RowAgeAfterAccess(row) == IF row = WatchedRow THEN 0 ELSE h_row_age

\* The cells the model keeps: those the model's pixels live in and those
\* their writes select.
DramCells ==
  { DramCellOf(p[1], p[2]) : p \in ModelPixels } \cup
  { SelectedCell(dram_row(p[1], p[2]), dram_col(p[1], p[2])) : p \in ModelPixels }

\* Cells clearFramebuffer reaches in setup(): one writeDRAM per pixel index.
\* Every address-line pattern occurs, so exactly the cells <<a, a>> are cleared.
ClearedCells == { c \in DramCells : c[1] = c[2] }

\* ------------------------------------------------------------------------
\* Ring arithmetic (lines 241-242, 274, 283)
\* ------------------------------------------------------------------------
NextWriteIndex_wide(w) == w + 1
NextWriteIndex(w) == (w + 1) % MAX_UPDATE_BUFFER_SIZE

IsFull_never(next_index, read_index) == FALSE
IsFull_early(next_index, read_index) ==
  next_index = read_index \/ (next_index + 1) % MAX_UPDATE_BUFFER_SIZE = read_index
IsFull(next_index, read_index) == next_index = read_index

NextReadIndex_skip(r) == (r + 2) % MAX_UPDATE_BUFFER_SIZE
NextReadIndex(r) == (r + 1) % MAX_UPDATE_BUFFER_SIZE

DrainDone_one(r, w) == r = w \/ Len(h_run_writes) >= 1
DrainDone_never(r, w) == FALSE
DrainDone(r, w) == r = w

\* The unread entries, oldest first.
RingContents ==
  LET n == (update_buffer_write_index - update_buffer_read_index)
             % MAX_UPDATE_BUFFER_SIZE
  IN  [i \in 1..n |->
         update_buffer[(update_buffer_read_index + i - 1) % MAX_UPDATE_BUFFER_SIZE]]

\* The writeDRAM call applyBufferUpdates makes for an entry.
WriteArgs(u) == <<dram_row(u.x, u.y), dram_col(u.x, u.y), u.color>>

ZeroEntry == [x |-> 0, y |-> 0, color |-> 0]
NoRect    == [status |-> "none", x |-> 0, y |-> 0, w |-> 0, h |-> 0,
              color |-> 0, x_end |-> 0, y_end |-> 0, i |-> 0, j |-> 0, n |-> 0]
NoLocals  == [x |-> 0, y |-> 0, color |-> 0, next_index |-> 0, rd_lo |-> 0]
NoColor   == 0 - 1
NoRow     == 0 - 1

\* ------------------------------------------------------------------------
\* mega_edo_fb8_320x240.ino: constants and initial state (lines 62-79)
\* ------------------------------------------------------------------------
\* First scanline value on which the line handler of that sketch transfers
\* a row (line 215).
ORIG_FIRST_ACTIVE == 35
\* Slots of its update_buffer (1024 in the sketch).
OrigBufferSize == 2
\* Frame interrupts followed, and line interrupts followed per frame.
OrigFrames == 2
OrigLines  == ORIG_FIRST_ACTIVE + 1
\* Inputs offered to its drawPixel.
OrigDrawInputs == { <<10, 10, 15>>, <<0 - 1, 0, 15>> }

NoCall == <<>>

\* After setup() (lines 253-301): the globals hold their initializers,
\* sei() has set the interrupt enable bit.
OrigInit ==
  /\ orig_buffer = [i \in 0..(OrigBufferSize - 1) |-> ZeroEntry]
  /\ update_buffer_index = 0
  /\ vBlank_in_progress = FALSE
  /\ currentScanline = 0
  /\ currentRow = 0
  /\ sreg_I = TRUE
  /\ handler_pc = "none"
  /\ apply_i = 0 /\ refresh_row = 0
  /\ draw_pc = "idle" /\ draw_index = 0
  /\ last_writeDram = NoCall /\ last_transfer = NoCall
  /\ h_orig_frames = 0
  /\ h_orig_writes = [i \in 0..(OrigBufferSize - 1) |-> NoColor]

\* ------------------------------------------------------------------------
\* src/unnamed/part_002: the 4-bit driver's pins and the chip (lines 24-41)
\* ------------------------------------------------------------------------
ADDRESS_PINS_COUNT == 9
DATA_PINS_COUNT == 4
HIGH == 1
LOW == 0

\* Rows, columns and values of the calls the model makes, and the levels an
\* undriven data line may be read at.
DriverRows == {0, 511}
DriverCols == {1, 511}
DriverValues == {0, 10, 15}
FloatLevels == {0, 15}
DriverCells == DriverRows \X DriverCols

\* After setup() (lines 183-203): every pin an output, the strobes high, the
\* address lines at the last row refreshDram refreshed. A cell never written
\* holds NoColor: its content is not known.
DriverInit ==
  /\ drv_pins = [mode |-> "OUTPUT", RAS |-> HIGH, CAS |-> HIGH, WE |-> HIGH,
                 OE |-> HIGH, addr |-> 511, data |-> 0]
  /\ chip = [row |-> 0, col |-> 0, cells |-> [c \in DriverCells |-> NoColor]]
  /\ drv_pc = [fn |-> "idle", i |-> 0, row |-> 0, col |-> 0, data |-> 0,
               ret |-> 0]
  /\ h_driver = [prev |-> <<"none", 0, 0, 0>>, expect |-> NoColor]

\* ------------------------------------------------------------------------
\* mega_edo_fb8_320x240_fix.ino: port bits of the strobes (lines 43-63)
\* ------------------------------------------------------------------------
VSYNC_BIT == 1
RAS_BIT == 3
CAS_BIT == 4
WE_BIT == 7
OE_BIT == 6
SE_BIT == 4

\* Bit n of a register value.
Bit(v, n) == (v \div (2 ^ n)) % 2

RECURSIVE BitAnd(_, _)
BitAnd(a, b) ==
  IF a = 0 \/ b = 0 THEN 0
  ELSE (a % 2) * (b % 2) + 2 * BitAnd(a \div 2, b \div 2)
RECURSIVE BitOr(_, _)
BitOr(a, b) ==
  IF a = 0 THEN b
  ELSE IF b = 0 THEN a
  ELSE (IF a % 2 = 1 \/ b % 2 = 1 THEN 1 ELSE 0)
         + 2 * BitOr(a \div 2, b \div 2)

\* The strobe levels the registers drive (lines 45-63).
StrobeNames == {"RAS", "CAS", "WE", "OE", "SE", "VSYNC"}
Strobes(r) ==
  [RAS |-> Bit(r.PORTL, RAS_BIT), CAS |-> Bit(r.PORTL, CAS_BIT),
   WE |-> Bit(r.PORTC, WE_BIT), OE |-> Bit(r.PORTC, OE_BIT),
   SE |-> Bit(r.PORTC, SE_BIT), VSYNC |-> Bit(r.PORTL, VSYNC_BIT)]

\* After setupPorts() (lines 358-379): the data port an output, RAS and CAS
\* set in PORTL, WE, OE and SE set in PORTC.
PortInit ==
  /\ io = [PORTA |-> 0, DDRA |-> 15, PORTD |-> 0,
           PORTL |-> 2 ^ RAS_BIT + 2 ^ CAS_BIT,
           PORTC |-> 2 ^ WE_BIT + 2 ^ OE_BIT + 2 ^ SE_BIT]
  /\ pin_pc = [fn |-> "idle", i |-> 0, row |-> 0, col |-> 0, color |-> 0,
               n |-> 0]
  /\ h_pins = [events |-> <<>>, cycles |-> 0]

\* ------------------------------------------------------------------------
\* src/unnamed/part_001: unsigned long arithmetic (lines 7-9, 87-93)
\* ------------------------------------------------------------------------
refreshInterval == 250
\* An unsigned long is kept as <<high, low>>, two halves of 16 bits.
HALF == 65536

\* a + d for a small d, and a - b, both modulo 2^32.
Add32(a, d) ==
  LET lo == a[2] + d
  IN  <<(a[1] + (lo \div HALF)) % HALF, lo % HALF>>
Sub32(a, b) ==
  LET lo == a[2] - b[2]
      borrow == IF lo < 0 THEN 1 ELSE 0
  IN  <<(a[1] - b[1] - borrow) % HALF, lo % HALF>>
\* a >= k for a small k.
GE32(a, k) == a[1] > 0 \/ a[2] >= k

\* now - lastRefreshMicros (line 89).
Elapsed32_nowrap(now, last) ==
  IF now[1] > last[1] \/ (now[1] = last[1] /\ now[2] >= last[2])
    THEN Sub32(now, last) ELSE <<0, 0>>
Elapsed32(now, last) == Sub32(now, last)

\* At power-up: lastRefreshMicros = 0 (line 9) and the counter at 0.
TimedInit ==
  /\ micros = <<0, 0>>
  /\ lastRefreshMicros = <<0, 0>>
  /\ refresh_calls = 0
  /\ refresh_runs = 0
  /\ h_elapsed = 0

\* ------------------------------------------------------------------------
\* Initial state: after setup() (lines 94-106, 416-441)
\* ------------------------------------------------------------------------
InitShared ==
  /\ update_buffer = [i \in 0..(MAX_UPDATE_BUFFER_SIZE - 1) |-> ZeroEntry]
  /\ update_buffer_write_index = 0
  /\ update_buffer_read_index = 0
  /\ current_scanline = 0
  /\ current_video_line = 0
  /\ vblank_active = FALSE
  /\ OCF1A = FALSE /\ OCF5A = FALSE
  /\ TCCR3B = 0
  /\ sam = NoRow
  /\ pc = "idle" /\ dp = NoLocals /\ ret = "none"
  /\ isr = "none" /\ refresh_i = 0 /\ isr_credit = FALSE
  /\ h_owed = <<>> /\ h_stray = FALSE
  /\ h_burst = <<>> /\ h_dropped = FALSE
  /\ h_last = [p \in ModelPixels |-> NoColor]
  /\ h_snapshot = <<>> /\ h_run_writes = <<>>
  /\ h_lines_since_frame = 0 /\ h_dirty = FALSE
  /\ h_row_age = 0
  /\ h_oob = <<>>
  /\ dr = NoRect
  /\ loop_pc = "idle"
  /\ OrigInit
  /\ DriverInit
  /\ PortInit

\* No pixel is followed.
MapIdle ==
  /\ map_pixel = <<0, 0>>
  /\ map_cell = <<>>
  /\ h_transferred = <<>>

\* mega_edo_fb8_320x240_fix.ino line 87: the slots of the ring.
RING_SIZE == 512
\* The ring at its own size is not followed: no slot of it is kept.
WideIdle ==
  /\ wide_buffer = <<>>
  /\ wide_write_index = 0
  /\ wide_read_index = 0
  /\ wide_overflow = FALSE
  /\ wide_pc = "idle" /\ wide_dp = NoLocals /\ wide_ret = "none"
  /\ wide_isr = "none"
  /\ wide_last_write = <<>>
  /\ wide_calls = 0
  /\ h_wide_max = 0

\* mega_edo/fb320x240_2ok.ino lines 35-36: the globals after reset.
ClockInit ==
  /\ clock_us = 0
  /\ lastRefreshTime = 0
  /\ refreshCounter = 0
  /\ loop_passes = 0
  /\ h_since_refresh = 0

InitRest ==
  /\ InitShared
  /\ TimedInit
  /\ MapIdle
  /\ WideIdle
  /\ ClockInit

\* The counters and flags as their initializers leave them.
InitGlobals ==
  /\ InitRest
  /\ buffer_overflow = FALSE
  /\ frame_count = 0
  /\ timing_error = FALSE
  /\ last_frame = 0
  /\ h_burst_ok = TRUE

\* Values a DRAM cell may hold at power-up.
PowerUpDram == [DramCells -> {0} \cup ModelColors]

InitCommon ==
  /\ InitGlobals
  \* clearFramebuffer(0x00): every cell it selects holds 0; a cell it never
  \* selects keeps its power-up value
  /\ dram \in { d \in PowerUpDram : \A c \in ClearedCells : d[c] = 0 }

\* The benches at rest.
DrainIdle ==
  drain_read = 0 /\ drain_write = 0 /\ drain_cycles = 0 /\ drain_pc = "none"
SetupDone == setup_pc = "done"
BenchIdle == DrainIdle /\ SetupDone

Init ==
  /\ InitCommon
  /\ TCNT1 = 0 /\ TCNT5 = 0
  /\ fn_in = 0 /\ fn_out = "none"
  /\ BenchIdle

\* ------------------------------------------------------------------------
\* drawPixel (lines 235-256), in the background context
\* ------------------------------------------------------------------------
\* History kept when a call for an in-bounds pixel returns.
Returned(accepted) ==
  /\ h_burst' = IF h_burst_ok THEN Append(h_burst, accepted) ELSE h_burst
  /\ h_dropped' = (h_dropped \/ ~accepted)

\* The bounds check (line 236).
OutOfBounds_x(x, y) == x >= FRAMEBUFFER_WIDTH
OutOfBounds(x, y) == x >= FRAMEBUFFER_WIDTH \/ y >= FRAMEBUFFER_HEIGHT

\* Entry: the bounds check and next_index (lines 236-241).
drawPixel_call(x, y, color) ==
  /\ pc = "idle" /\ isr = "none"
  /\ h_burst_ok => Len(h_burst) < MAX_UPDATE_BUFFER_SIZE + OverflowExtra
  /\ h_oob' = IF x \in 0..(H_VISIBLE - 1) /\ y \in 0..(V_VISIBLE - 1)
                THEN <<>> ELSE <<x, y>>
  /\ IF OutOfBounds(x, y)
       THEN /\ ret' = "false"
            /\ UNCHANGED <<pc, dp>>
       ELSE /\ dp' = [x |-> x, y |-> y, color |-> color,
                      next_index |-> NextWriteIndex(update_buffer_write_index),
                      rd_lo |-> 0]
            /\ pc' = "read_lo"
            /\ ret' = "none"
  /\ UNCHANGED <<queueVars, vgaVars, timerVars, dram, isr, refresh_i,
                 isr_credit, histVars, fn_in, fn_out, drainVars, setup_pc,
                 lateVars, h_row_age>>

\* Line 242, first half: the low byte of update_buffer_read_index is loaded.
drawPixel_read_lo ==
  /\ pc = "read_lo" /\ isr = "none"
  /\ dp' = [dp EXCEPT !.rd_lo = update_buffer_read_index % ByteRadix]
  /\ pc' = "read_hi"
  /\ UNCHANGED <<queueVars, vgaVars, timerVars, dram, ret, isr, refresh_i,
                 isr_credit, histVars, benchVars>>

\* Line 242-245: the high byte is loaded and the comparison made; a full
\* ring sets buffer_overflow and returns false.
drawPixel_compare ==
  /\ pc = "read_hi" /\ isr = "none"
  /\ LET rd == (update_buffer_read_index \div ByteRadix) * ByteRadix + dp.rd_lo
     IN  IF IsFull(dp.next_index, rd)
           THEN /\ buffer_overflow' = TRUE
                /\ ret' = "false"
                /\ pc' = "idle"
                /\ dp' = NoLocals
                /\ Returned(FALSE)
           ELSE /\ pc' = "store"
                /\ UNCHANGED <<buffer_overflow, ret, dp, h_burst, h_dropped>>
  /\ UNCHANGED <<update_buffer, update_buffer_write_index,
                 update_buffer_read_index, vgaVars, timerVars, dram, isr,
                 refresh_i, isr_credit, h_owed, h_stray, h_burst_ok, h_last,
                 h_snapshot, h_run_writes, h_lines_since_frame, h_dirty,
                 benchVars>>

\* (mutant) the background code writes the pixel to the DRAM as well.
drawPixel_store_direct ==
  /\ pc = "store" /\ isr = "none"
  /\ LET u == [x |-> dp.x, y |-> dp.y, color |-> dp.color]
     IN  /\ update_buffer' = [update_buffer EXCEPT ![update_buffer_write_index] = u]
         /\ h_owed' = Append(h_owed, WriteArgs(u))
         /\ h_last' = [h_last EXCEPT ![<<dp.x, dp.y>>] = dp.color]
         /\ dram' = writeDRAM(dram, WriteArgs(u)[1], WriteArgs(u)[2], u.color)
  /\ update_buffer_write_index' = dp.next_index
  /\ ret' = "true"
  /\ pc' = "idle"
  /\ dp' = NoLocals
  /\ Returned(TRUE)
  /\ UNCHANGED <<update_buffer_read_index, buffer_overflow, vgaVars,
                 timerVars, isr, refresh_i, isr_credit, h_stray,
                 h_burst_ok, h_snapshot, h_run_writes, h_lines_since_frame,
                 h_dirty, benchVars>>

\* Lines 248-255: with interrupts disabled, the entry is stored and the
\* write index advanced; returns true.
drawPixel_store ==
  /\ pc = "store" /\ isr = "none"
  /\ LET u == [x |-> dp.x, y |-> dp.y, color |-> dp.color]
     IN  /\ update_buffer' = [update_buffer EXCEPT ![update_buffer_write_index] = u]
         /\ h_owed' = Append(h_owed, WriteArgs(u))
         /\ h_last' = [h_last EXCEPT ![<<dp.x, dp.y>>] = dp.color]
  /\ update_buffer_write_index' = dp.next_index
  /\ ret' = "true"
  /\ pc' = "idle"
  /\ dp' = NoLocals
  /\ Returned(TRUE)
  /\ UNCHANGED <<update_buffer_read_index, buffer_overflow, vgaVars,
                 timerVars, dram, isr, refresh_i, isr_credit, h_stray,
                 h_burst_ok, h_snapshot, h_run_writes, h_lines_since_frame,
                 h_dirty, benchVars>>

\* ------------------------------------------------------------------------
\* ISR(TIMER5_COMPA_vect) (lines 336-352) and what it calls
\* ------------------------------------------------------------------------
\* Handler entry (lines 337-338).  TIMER1_COMPA has the lower vector number
\* and is served first when both flags are set.
TIMER5_COMPA_enter ==
  /\ isr = "none" /\ OCF5A /\ ~OCF1A
  /\ OCF5A' = FALSE
  \* uint32_t: the wrap at 2^32 lies beyond every bound of the model
  /\ frame_count' = frame_count + 1
  /\ vblank_active' = TRUE
  /\ isr' = "apply"
  /\ isr_credit' = FALSE
  /\ h_snapshot' = RingContents
  /\ h_run_writes' = <<>>
  /\ h_burst_ok' = FALSE
  /\ h_lines_since_frame' = 0
  /\ UNCHANGED <<queueVars, current_scanline, current_video_line,
                 timing_error, TCNT1, TCNT5, OCF1A, TCCR3B, sam, dram, pc, dp, ret,
                 refresh_i, h_owed, h_stray, h_burst, h_dropped, h_last,
                 h_dirty, benchVars>>

\* applyBufferUpdates, one pass of the loop body (lines 274-284).
applyBufferUpdates_write ==
  /\ isr = "apply"
  /\ ~DrainDone(update_buffer_read_index, update_buffer_write_index)
  /\ LET u    == update_buffer[update_buffer_read_index]
         args == WriteArgs(u)
     IN  /\ dram' = writeDRAM(dram, args[1], args[2], args[3])
         /\ h_run_writes' = Append(h_run_writes, args)
         /\ IF h_owed # <<>> /\ Head(h_owed) = args
              THEN h_owed' = Tail(h_owed) /\ h_stray' = h_stray
              ELSE h_owed' = h_owed /\ h_stray' = TRUE
         /\ h_row_age' = RowAgeAfterAccess(SelectedCell(args[1], args[2])[1])
  /\ update_buffer_read_index' = NextReadIndex(update_buffer_read_index)
  /\ isr_credit' = TRUE
  /\ h_dirty' = TRUE
  /\ UNCHANGED <<update_buffer, update_buffer_write_index, buffer_overflow,
                 vgaVars, timerVars, pc, dp, ret, isr, refresh_i, h_burst,
                 h_burst_ok, h_dropped, h_last, h_snapshot,
                 h_lines_since_frame, benchRest>>

\* (mutant) the drain ends by resetting both indices.
applyBufferUpdates_return_reset ==
  /\ isr = "apply"
  /\ update_buffer_read_index = update_buffer_write_index
  /\ update_buffer_read_index' = 0
  /\ update_buffer_write_index' = 0
  /\ isr' = IF frame_count % REFRESH_FRAMES = 0 THEN "refresh" ELSE "exit"
  /\ refresh_i' = 0
  /\ isr_credit' = FALSE
  /\ UNCHANGED <<update_buffer, buffer_overflow, vgaVars, timerVars, dram, pc,
                 dp, ret, histVars, benchVars>>

\* applyBufferUpdates returns; the refresh test (lines 274, 344).
applyBufferUpdates_return ==
  /\ isr = "apply"
  /\ DrainDone(update_buffer_read_index, update_buffer_write_index)
  /\ isr' = IF frame_count % REFRESH_FRAMES = 0 THEN "refresh" ELSE "exit"
  /\ refresh_i' = 0
  /\ isr_credit' = FALSE
  /\ UNCHANGED <<queueVars, vgaVars, timerVars, dram, pc, dp, ret, histVars,
                 benchVars>>

\* (mutant) the handler returns without clearing vblank_active.
TIMER5_COMPA_exit_keep ==
  /\ isr = "exit"
  /\ current_scanline' = 0
  /\ current_video_line' = 0
  /\ vblank_active' = vblank_active
  /\ isr' = "none"
  /\ isr_credit' = FALSE
  /\ h_burst' = <<>>
  /\ h_burst_ok' = (pc = "idle")
  /\ h_dropped' = FALSE
  /\ h_last' = [p \in ModelPixels |-> NoColor]
  /\ UNCHANGED <<queueVars, frame_count, timing_error, timerVars, dram, pc,
                 dp, ret, refresh_i, h_owed, h_stray, h_snapshot,
                 h_run_writes, h_lines_since_frame, h_dirty, benchVars>>

\* Handler exit (lines 349-351).
TIMER5_COMPA_exit ==
  /\ isr = "exit"
  /\ current_scanline' = 0
  /\ current_video_line' = 0
  /\ vblank_active' = FALSE
  /\ isr' = "none"
  /\ isr_credit' = FALSE
  /\ h_burst' = <<>>
  /\ h_burst_ok' = (pc = "idle")
  /\ h_dropped' = FALSE
  /\ h_last' = [p \in ModelPixels |-> NoColor]
  /\ UNCHANGED <<queueVars, frame_count, timing_error, timerVars, dram, pc,
                 dp, ret, refresh_i, h_owed, h_stray, h_snapshot,
                 h_run_writes, h_lines_since_frame, h_dirty, benchVars>>

\* ------------------------------------------------------------------------
\* Spec: the background code against a frame interrupt requested at
\* arbitrary moments (the timers abstracted to "the compare match may
\* happen now").
\* ------------------------------------------------------------------------
Timer5_match_anytime ==
  /\ ~OCF5A
  /\ frame_count < MaxFrames
  /\ OCF5A' = TRUE
  /\ UNCHANGED <<queueVars, vgaVars, TCNT1, TCNT5, OCF1A, TCCR3B, sam, dram,
                 ctlVars, histVars, benchVars>>

Next ==
  \/ \E in \in DrawInputs : drawPixel_call(in[1], in[2], in[3])
  \/ drawPixel_read_lo
  \/ drawPixel_compare
  \/ drawPixel_store
  \/ Timer5_match_anytime
  \/ TIMER5_COMPA_enter
  \/ applyBufferUpdates_write
  \/ applyBufferUpdates_return
  \/ TIMER5_COMPA_exit

Spec == Init /\ [][Next]_vars

\* ------------------------------------------------------------------------
\* refreshDRAM (lines 209-228), called from the frame handler (line 345)
\* ------------------------------------------------------------------------
\* One CAS-before-RAS cycle of the loop.  RefreshCyclesPerTick cycles take
\* a tick: the next cycle waits for it.
refreshDRAM_cycle ==
  /\ isr = "refresh" /\ ~isr_credit
  /\ refresh_i < DRAM_ROWS
  /\ refresh_i' = refresh_i + 1
  /\ isr_credit' = ((refresh_i + 1) % RefreshCyclesPerTick = 0)
  /\ h_dirty' = TRUE
  /\ UNCHANGED <<queueVars, vgaVars, timerVars, dram, pc, dp, ret, isr,
                 h_owed, h_stray, h_burst, h_burst_ok, h_dropped, h_last,
                 h_snapshot, h_run_writes, h_lines_since_frame, benchVars>>

refreshDRAM_return ==
  /\ isr = "refresh" /\ ~isr_credit
  /\ refresh_i = DRAM_ROWS
  /\ isr' = "exit"
  \* DRAM_ROWS CAS-before-RAS cycles have refreshed every row
  /\ h_row_age' = 0
  /\ UNCHANGED <<queueVars, vgaVars, timerVars, dram, pc, dp, ret, refresh_i,
                 isr_credit, histVars, benchRest>>

\* ------------------------------------------------------------------------
\* ISR(TIMER1_COMPA_vect) (lines 305-333)
\* ------------------------------------------------------------------------
\* The active-line test of lines 317-318.
IsActiveLine(line) ==
  /\ line >= V_FRONT_PORCH + V_SYNC_PULSE + V_BACK_PORCH
  /\ line < V_TOTAL - V_FRONT_PORCH

\* Line 309, TCNT1 > (ICR1 >> 1), on a counter known to the tick: the
\* outcomes the cycles within the tick allow.
LateOutcomes(ticks) ==
  { c > (ICR1 \div 2) :
      c \in { ticks * CyclesPerTick, ticks * CyclesPerTick + CyclesPerTick - 1 } }

\* Lines 309-311: the flag is set when the handler finds itself late, and
\* left alone otherwise.
TimingErrorAfter_overwrite(flag, late) == late
TimingErrorAfter(flag, late) == flag \/ late

\* transferRowToSAM (lines 177-206): the serial register is loaded from the
\* row the address lines select when RAS falls.
transferRowToSAM(row) == setDRAMAddress(row, 0)

\* The whole handler; it is short and runs within the tick it starts in.
TIMER1_COMPA_vect ==
  /\ isr = "none" /\ OCF1A
  /\ OCF1A' = FALSE
  /\ current_scanline' = (current_scanline + 1) % UINT16
  /\ \E late \in LateOutcomes(TCNT1) :
       timing_error' = TimingErrorAfter(timing_error, late)
  /\ TCNT1' = 0
  /\ IF IsActiveLine(current_scanline')
       THEN /\ sam' = transferRowToSAM(current_video_line)
            /\ current_video_line' = (current_video_line + 1) % UINT16
            /\ TCCR3B' = 1
            /\ h_dirty' = FALSE
            /\ h_row_age' = RowAgeAfterAccess(transferRowToSAM(current_video_line))
       ELSE /\ TCCR3B' = 0
            /\ UNCHANGED <<sam, current_video_line, h_dirty, h_row_age>>
  /\ h_lines_since_frame' = h_lines_since_frame + 1
  /\ UNCHANGED <<queueVars, vblank_active, frame_count, TCNT5, OCF5A, dram,
                 ctlVars, h_owed, h_stray, h_burst, h_burst_ok, h_dropped,
                 h_last, h_snapshot, h_run_writes, benchRest>>

\* ------------------------------------------------------------------------
\* The timers (setupTimers, lines 381-410)
\* ------------------------------------------------------------------------
\* One tick of CPU time.  A pending interrupt is taken before the tick ends
\* whenever the CPU can take it (no handler running); a running handler
\* spans a tick only where its work takes that long.  A compare match sets
\* the flag; a match while the flag is still set is lost.
Tick ==
  /\ frame_count < TimerFrames \/ isr # "none"
  /\ IF isr = "none" THEN ~OCF1A /\ ~OCF5A ELSE isr_credit
  /\ TCNT1' = (TCNT1 + 1) % Timer1Ticks
  /\ OCF1A' = (OCF1A \/ TCNT1 + 1 = Timer1Ticks)
  /\ TCNT5' = (TCNT5 + 1) % Timer5Ticks
  /\ OCF5A' = (OCF5A \/ TCNT5 + 1 = OCR5ATick)
  /\ isr_credit' = FALSE
  /\ h_row_age' = IF h_row_age > RetentionTicks THEN h_row_age ELSE h_row_age + 1
  /\ UNCHANGED <<queueVars, vgaVars, TCCR3B, sam, dram, pc, dp, ret, isr,
                 refresh_i, histVars, benchRest>>

\* The background code draws one pixel value, during the first frames only.
TimerDrawInputs == { <<65, 104, 1>> }

drawPixel_early(x, y, color) ==
  /\ frame_count < DrawFrames
  /\ drawPixel_call(x, y, color)

NextTimers ==
  \/ \E in \in TimerDrawInputs : drawPixel_early(in[1], in[2], in[3])
  \/ drawPixel_read_lo
  \/ drawPixel_compare
  \/ drawPixel_store
  \/ Tick
  \/ TIMER1_COMPA_vect
  \/ TIMER5_COMPA_enter
  \/ applyBufferUpdates_write
  \/ applyBufferUpdates_return
  \/ refreshDRAM_cycle
  \/ refreshDRAM_return
  \/ TIMER5_COMPA_exit

\* setupTimers sets the modes and compare values but not the counters: they
\* hold what the 8-bit PWM mode they ran in before had counted to.
StartTicks == 0..((2 ^ 8 - 1) \div CyclesPerTick)

InitTimers ==
  /\ InitCommon
  /\ TCNT1 \in StartTicks /\ TCNT5 \in StartTicks
  /\ fn_in = 0 /\ fn_out = "none"
  /\ BenchIdle

SpecTimers == InitTimers /\ [][NextTimers]_vars

\* ------------------------------------------------------------------------
\* SpecActiveLine: the active-line test applied to every line of a frame
\* ------------------------------------------------------------------------
InitActiveLine ==
  /\ InitCommon
  /\ TCNT1 = 0 /\ TCNT5 = 0
  /\ fn_in \in 0..(V_TOTAL - 1)
  /\ fn_out = "none"
  /\ BenchIdle

IsActiveLine_apply ==
  /\ fn_out = "none"
  /\ fn_out' = IF IsActiveLine(fn_in) THEN "true" ELSE "false"
  /\ UNCHANGED <<queueVars, vgaVars, timerVars, dram, ctlVars, histVars, fn_in,
                 drainVars, auxVars, h_row_age>>

SpecActiveLine == InitActiveLine /\ [][IsActiveLine_apply]_vars

\* ------------------------------------------------------------------------
\* Claims about the update ring, checked under Spec
\* ------------------------------------------------------------------------
\* Number of slots the ring can hold unread at once.
Unread == (update_buffer_write_index - update_buffer_read_index)
            % MAX_UPDATE_BUFFER_SIZE
RingIsFull ==
  (update_buffer_write_index + 1) % MAX_UPDATE_BUFFER_SIZE
    = update_buffer_read_index
UnreadSlots ==
  { (update_buffer_read_index + k) % MAX_UPDATE_BUFFER_SIZE : k \in 0..(Unread - 1) }

\* C1: when the ring is full at drawPixel's comparison, the call sets
\* buffer_overflow and returns false in that very step, with both indices
\* and the whole buffer unchanged; and no step of the background code ever
\* changes a slot that holds an unread entry.
C1_FullIsRejected ==
  [][ /\ (pc = "read_hi" /\ pc' # "read_hi" /\ RingIsFull)
         => /\ buffer_overflow' = TRUE
            /\ ret' = "false"
            /\ pc' = "idle"
            /\ update_buffer_write_index' = update_buffer_write_index
            /\ update_buffer_read_index' = update_buffer_read_index
            /\ update_buffer' = update_buffer
      /\ \A i \in UnreadSlots : update_buffer'[i] = update_buffer[i]
    ]_vars

\* C1 witness: a call has just been rejected on a full ring.
C1_Witness ==
  /\ pc = "idle" /\ ret = "false" /\ buffer_overflow /\ h_dropped
  /\ RingIsFull

\* C2: every accepted update is written exactly once: no writeDRAM call of
\* applyBufferUpdates is anything but the oldest accepted update not yet
\* written (h_stray), the accepted updates not yet written are exactly the
\* unread entries of the ring, in order, with their x, y and color, and
\* none is left when the drain has returned.
C2_ExactlyOnce ==
  /\ ~h_stray
  /\ Len(h_owed) = Unread
  /\ \A i \in 1..Len(h_owed) : h_owed[i] = WriteArgs(RingContents[i])
  /\ isr \in {"refresh", "exit"} => h_owed = <<>>

\* C2 witness: the frame interrupt came while drawPixel was between its
\* full-check and its store, and wrote an update enqueued before.
C2_Witness ==
  /\ isr = "exit" /\ pc = "store"
  /\ Len(h_run_writes) >= 1
  /\ frame_count = 2

\* C3 (as claimed): after a drain that followed no dropped update, each
\* pixel enqueued since the previous drain holds, in the DRAM cell it lives
\* in, the color of the last call made for it.
C3_LastWriteWins ==
  (isr = "exit" /\ ~h_dropped)
    => \A p \in ModelPixels :
         h_last[p] # NoColor => dram[DramCellOf(p[1], p[2])] = h_last[p]

\* C4: when applyBufferUpdates has returned, the ring is empty and the
\* writeDRAM calls of this run are the entries that were unread when the
\* handler started, oldest first.
C4_DrainsAllInOrder ==
  isr \in {"refresh", "exit"}
    => /\ update_buffer_read_index = update_buffer_write_index
       /\ Len(h_run_writes) = Len(h_snapshot)
       /\ \A i \in 1..Len(h_snapshot) : h_run_writes[i] = WriteArgs(h_snapshot[i])

\* C4 witness: a run that found the ring full, starting at a slot other
\* than 0, has returned.
C4_Witness ==
  /\ isr = "exit"
  /\ Len(h_snapshot) = MAX_UPDATE_BUFFER_SIZE - 1
  /\ h_snapshot[1] # h_snapshot[2]
  /\ frame_count = 2

\* Number of accepted calls in a burst.
Accepted(b) == Cardinality({ i \in 1..Len(b) : b[i] })
BurstComplete ==
  h_burst_ok /\ Len(h_burst) = MAX_UPDATE_BUFFER_SIZE + OverflowExtra

\* C5 (as claimed): of N + OverflowExtra in-bounds updates offered to an
\* empty ring with no drain in between, the oldest N are accepted,
\* OverflowExtra are dropped and buffer_overflow is set.
C5_DropsExactlyExtra ==
  BurstComplete
    => /\ h_burst = [i \in 1..Len(h_burst) |-> i <= MAX_UPDATE_BUFFER_SIZE]
       /\ Accepted(h_burst) = MAX_UPDATE_BUFFER_SIZE
       /\ Len(h_burst) - Accepted(h_burst) = OverflowExtra
       /\ buffer_overflow

\* C5 (amended): the oldest N - 1 are accepted and stay in the ring,
\* OverflowExtra + 1 are dropped and buffer_overflow is set.
C5_DropsExtraPlusOne ==
  BurstComplete
    => /\ h_burst = [i \in 1..Len(h_burst) |-> i <= MAX_UPDATE_BUFFER_SIZE - 1]
       /\ Len(h_burst) - Accepted(h_burst) = OverflowExtra + 1
       /\ Unread = MAX_UPDATE_BUFFER_SIZE - 1
       /\ h_owed = [i \in 1..Unread |-> WriteArgs(RingContents[i])]
       /\ buffer_overflow

\* C5 witness: such a burst has been offered.
C5_Witness == BurstComplete /\ pc = "idle"

\* A pass of the drain loop.
PassStep == isr = "apply" /\ h_run_writes' # h_run_writes

\* C21: a run of applyBufferUpdates ends: every pass of its loop finds the
\* write index where it was and leaves one unread entry less, so a run
\* makes at most MAX_UPDATE_BUFFER_SIZE - 1 writes, makes none on an empty
\* ring, and the handler leaves the loop exactly when the ring is empty.
C21_DrainTerminates ==
  [][ /\ PassStep
           => /\ Unread > 0
              /\ Unread' = Unread - 1
              /\ update_buffer_write_index' = update_buffer_write_index
              /\ Len(h_run_writes') = Len(h_run_writes) + 1
      /\ Len(h_run_writes') <= MAX_UPDATE_BUFFER_SIZE - 1
      /\ (isr = "apply" /\ isr' # "apply")
           => /\ Unread = 0
              /\ isr' \in {"refresh", "exit"}
    ]_vars

\* C21 witness: the frame handler has drained a full ring on which calls
\* had been rejected, and is about to return.
C21_Witness ==
  /\ isr = "exit" /\ buffer_overflow
  /\ Len(h_run_writes) = MAX_UPDATE_BUFFER_SIZE - 1
  /\ Unread = 0

\* C29 (as claimed): the writeDRAM(row, col, v) of a pass of the drain
\* changes no cell of the array but the cell (row, col).
C29_WriteOnlyItsCell ==
  [][ PassStep =>
        LET args == WriteArgs(update_buffer[update_buffer_read_index])
        IN  \A c \in DOMAIN dram :
              c # <<args[1], args[2]>> => dram'[c] = dram[c]
    ]_vars

\* C31: both ring indices stay inside the ring, at most
\* MAX_UPDATE_BUFFER_SIZE - 1 entries are unread, the unread entries are
\* as many as the accepted updates not yet drained, and the indices are
\* equal exactly when no accepted update waits.
C31_RingIndices ==
  /\ update_buffer_write_index \in 0..(MAX_UPDATE_BUFFER_SIZE - 1)
  /\ update_buffer_read_index \in 0..(MAX_UPDATE_BUFFER_SIZE - 1)
  /\ Unread <= MAX_UPDATE_BUFFER_SIZE - 1
  /\ Unread = Len(h_owed)
  /\ (update_buffer_write_index = update_buffer_read_index) <=> (h_owed = <<>>)

\* C31 witness: the frame handler is draining a ring that wrapped: the
\* write index is below the read index and an accepted update still waits.
C31_Witness ==
  /\ isr = "apply"
  /\ update_buffer_write_index < update_buffer_read_index
  /\ Len(h_owed) >= 1
  /\ Len(h_run_writes) >= 1

\* C15: a drawPixel call with x or y outside the framebuffer returns false
\* in the step of the call and changes neither the buffer nor an index nor
\* buffer_overflow nor the DRAM; no entry of the ring and no writeDRAM call
\* of the drain ever lies outside the framebuffer's pixel range.
C15_OutOfBoundsIgnored ==
  [][ /\ (h_oob' # <<>> /\ (h_oob' # h_oob \/ ret' # ret))
         => /\ ret' = "false"
            /\ pc' = "idle" /\ dp' = dp
            /\ update_buffer' = update_buffer
            /\ update_buffer_write_index' = update_buffer_write_index
            /\ update_buffer_read_index' = update_buffer_read_index
            /\ buffer_overflow' = buffer_overflow
            /\ dram' = dram
            /\ h_owed' = h_owed
      /\ \A i \in 0..(MAX_UPDATE_BUFFER_SIZE - 1) :
           /\ update_buffer'[i].x < FRAMEBUFFER_WIDTH
           /\ update_buffer'[i].y < FRAMEBUFFER_HEIGHT
      /\ \A i \in 1..Len(h_run_writes') :
           h_run_writes'[i][1] * DRAM_COLS + h_run_writes'[i][2]
             < FRAMEBUFFER_WIDTH * FRAMEBUFFER_HEIGHT
    ]_vars

\* C15 witness: a call below the framebuffer has been rejected while the
\* ring held an unread entry and had room for more.
C15_Witness ==
  /\ h_oob = <<0, FRAMEBUFFER_HEIGHT>> /\ ret = "false" /\ pc = "idle"
  /\ Unread = 1 /\ ~buffer_overflow

\* ------------------------------------------------------------------------
\* Claims about the contexts and the frame timing, checked under SpecTimers
\* ------------------------------------------------------------------------
\* The steps of each context.
BackgroundStep  == isr = "none" /\ pc' # pc
FrameEnterStep  == isr = "none" /\ isr' = "apply"
FrameExitStep   == isr = "exit" /\ isr' = "none"
LineStep        == h_lines_since_frame' = h_lines_since_frame + 1
TransferStep    == LineStep /\ current_video_line' # current_video_line

\* C6: each piece of queue state has one writing context:
\* update_buffer_write_index (with the buffer and buffer_overflow) changes
\* only in a step of drawPixel in the background context,
\* update_buffer_read_index only in a step of applyBufferUpdates inside the
\* frame handler.
C6_SingleWriter ==
  [][ /\ update_buffer_write_index' # update_buffer_write_index
           => (isr = "none" /\ pc = "store" /\ pc' = "idle")
      /\ (update_buffer' # update_buffer \/ buffer_overflow' # buffer_overflow)
           => (BackgroundStep /\ isr' = "none")
      /\ update_buffer_read_index' # update_buffer_read_index
           => (isr = "apply" /\ isr' = "apply" /\ pc' = pc)
    ]_vars

\* C6 witness: the handler advances the read index while a drawPixel call
\* it interrupted is about to advance the write index.
C6_Witness ==
  /\ isr = "apply" /\ pc = "store"
  /\ update_buffer_read_index = 1
  /\ Len(h_run_writes) = 1

\* First and last scanline value of the visible part of a frame: the
\* blanking lines come first, V_VISIBLE lines follow.
v_blank_lines == V_FRONT_PORCH + V_SYNC_PULSE + V_BACK_PORCH
VisibleLines  == v_blank_lines..(v_blank_lines + V_VISIBLE - 1)

\* C7 (as claimed): the frame handler starts only when no active line of
\* the frame is still to come, and no DRAM write or refresh cycle lies
\* between two row transfers of one frame.
C7_HandlerAfterLastActiveLine ==
  [][ /\ FrameEnterStep
           => \A l \in (current_scanline + 1)..V_TOTAL : ~IsActiveLine(l)
      /\ (TransferStep /\ current_video_line > 0) => ~h_dirty
    ]_vars

\* C8 (as claimed): the active-line test is true on the V_VISIBLE lines
\* from v_blank_lines on and false on every other line of the frame.
C8_ActiveLineTest ==
  fn_out # "none" => (fn_out = "true" <=> fn_in \in VisibleLines)

\* C9 (as claimed): V_TOTAL line interrupts are served between two
\* consecutive runs of the frame handler.
C9_LinesPerFrame ==
  [][ (FrameEnterStep /\ frame_count >= 1)
        => h_lines_since_frame = V_TOTAL ]_vars

\* C10 (as claimed): a row is transferred on exactly the visible lines, the
\* row counter is below V_VISIBLE when used and 0 after the frame handler,
\* and when the next frame handler starts the rows 0..V_VISIBLE-1 have all
\* been transferred.
C10_EveryRowOncePerFrame ==
  [][ /\ LineStep => (TransferStep <=> current_scanline' \in VisibleLines)
      /\ TransferStep => /\ current_video_line < V_VISIBLE
                         /\ current_video_line' = current_video_line + 1
      /\ FrameExitStep => current_video_line' = 0
      /\ (FrameEnterStep /\ frame_count >= 1) => current_video_line = V_VISIBLE
    ]_vars

\* ------------------------------------------------------------------------
\* SpecSetup: setup() (lines 416-441) from reset, then the running program
\* ------------------------------------------------------------------------
\* At reset the globals hold their initializers and the DRAM its power-up
\* content; no timer interrupt is enabled before setupTimers.
InitReset ==
  /\ InitGlobals
  /\ dram \in PowerUpDram
  /\ TCNT1 = 0 /\ TCNT5 = 0
  /\ fn_in = 0 /\ fn_out = "none"
  /\ DrainIdle
  /\ setup_pc = "refreshDRAM"

\* refreshDRAM() and delay(10) (lines 423-425).
setup_refreshDRAM ==
  /\ setup_pc = "refreshDRAM"
  /\ setup_pc' = "clearFramebuffer"
  /\ h_row_age' = 0
  /\ UNCHANGED <<queueVars, vgaVars, timerVars, dram, ctlVars, histVars,
                 fn_in, fn_out, drainVars, h_oob, lateVars>>

\* clearFramebuffer (lines 288-298, called at line 428): one writeDRAM per
\* pixel index, the whole loop with interrupts disabled.
clearFramebuffer(color) ==
  /\ setup_pc = "clearFramebuffer"
  /\ dram' = [c \in DOMAIN dram |->
               IF c \in ClearedCells THEN color % 16 ELSE dram[c]]
  /\ setup_pc' = "setupTimers"
  /\ UNCHANGED <<queueVars, vgaVars, timerVars, ctlVars, histVars,
                 fn_in, fn_out, drainVars, h_oob, lateVars, h_row_age>>

\* setupTimers (lines 381-410, called at line 431): the compare interrupts
\* are enabled; the counters hold what they had counted to.
setupTimers ==
  /\ setup_pc = "setupTimers"
  /\ TCNT1' \in StartTicks /\ TCNT5' \in StartTicks
  /\ setup_pc' = "done"
  /\ UNCHANGED <<queueVars, vgaVars, OCF1A, OCF5A, TCCR3B, sam, dram, ctlVars,
                 histVars, fn_in, fn_out, drainVars, h_oob, lateVars, h_row_age>>

NextSetup ==
  \/ setup_refreshDRAM
  \/ clearFramebuffer(0)
  \/ setupTimers
  \/ (setup_pc = "done" /\ NextTimers)

SpecSetup == InitReset /\ [][NextSetup]_vars

\* C14: the content of the DRAM changes only in clearFramebuffer during
\* setup(), when the timers are not yet started and no handler can run,
\* and in a pass of applyBufferUpdates inside the frame handler; never in a
\* step of the background code after setup() and never in the line handler.
C14_DramWriters ==
  [][ dram' # dram
        => \/ /\ setup_pc = "clearFramebuffer" /\ setup_pc' = "setupTimers"
              /\ isr = "none" /\ ~OCF1A /\ ~OCF5A
           \/ /\ setup_pc = "done"
              /\ isr = "apply" /\ isr' = "apply"
              /\ update_buffer_read_index' # update_buffer_read_index
              /\ pc' = pc /\ ~LineStep
    ]_vars

\* C14 witness: a cell cleared in setup() has been rewritten by the frame
\* handler while the line handler had already run.
C14_Witness ==
  /\ setup_pc = "done" /\ isr = "apply"
  /\ \E c \in ClearedCells : dram[c] # 0
  /\ current_scanline > 0

\* ------------------------------------------------------------------------
\* SpecRect: drawRect (lines 259-270) in the background context, against
\* a frame interrupt requested at arbitrary moments
\* ------------------------------------------------------------------------
Min(a, b) == IF a < b THEN a ELSE b

\* Rectangles offered to drawRect: one inside the framebuffer, one that
\* reaches over its lower right corner, one of no width, and one whose
\* x + w exceeds 65535.
RectInputs == { <<10, 10, 4, 4, 15>>,
                <<FRAMEBUFFER_WIDTH - 2, FRAMEBUFFER_HEIGHT - 1, 4, 4, 31>>,
                <<10, 10, 0, 4, 15>>,
                <<FRAMEBUFFER_WIDTH - 2, FRAMEBUFFER_HEIGHT - 1, UINT16 - 1, 1, 31>> }
\* Frame interrupts followed after setup().
RectFrames == 9

\* The pixels whose cells the model keeps here: those of the rectangle at
\* (10, 10) and its neighbours.
RectWindow == { <<x, y>> : x \in 9..14, y \in 9..14 }
RectCells  ==
  { DramCellOf(p[1], p[2]) : p \in RectWindow } \cup
  { SelectedCell(dram_row(p[1], p[2]), dram_col(p[1], p[2])) : p \in RectWindow }
\* Values the cells clearFramebuffer never selects hold at power-up.
PowerUpValues == { 0, 15 }

\* After setup(): clearFramebuffer(0x00) has written 0 to the cells it
\* selects, the cells <<a, a>>.
InitRect ==
  /\ InitGlobals
  /\ dram \in { [c \in RectCells |-> IF c[1] = c[2] THEN 0 ELSE v] :
                  v \in PowerUpValues }
  /\ TCNT1 = 0 /\ TCNT5 = 0
  /\ fn_in = 0 /\ fn_out = "none"
  /\ BenchIdle

\* Lines 260-261 and the loop heads: x + w and y + h are 16-bit sums.
drawRect_call(x, y, w, h, color) ==
  /\ dr.status = "none" /\ pc = "idle" /\ isr = "none"
  /\ LET x_end == Min((x + w) % UINT16, FRAMEBUFFER_WIDTH)
         y_end == Min((y + h) % UINT16, FRAMEBUFFER_HEIGHT)
     IN  dr' = [status |-> IF y < y_end /\ x < x_end THEN "loop" ELSE "done",
                x |-> x, y |-> y, w |-> w, h |-> h, color |-> color,
                x_end |-> x_end, y_end |-> y_end, i |-> x, j |-> y, n |-> 0]
  /\ ret' = "none"
  /\ UNCHANGED <<queueVars, vgaVars, timerVars, dram, pc, dp, isr, refresh_i,
                 isr_credit, histVars, fn_in, fn_out, drainVars, setup_pc,
                 h_oob, loopVars, origVars, ioVars, h_row_age>>

\* Line 265: the call drawPixel(i, j, color).
drawRect_drawPixel ==
  /\ dr.status = "loop" /\ ret = "none"
  /\ drawPixel_call(dr.i, dr.j, dr.color)

\* (mutant) drawRect goes on with the next pixel whatever drawPixel returned.
drawRect_next_continue ==
  /\ dr.status = "loop" /\ pc = "idle" /\ isr = "none"
  /\ ret # "none"
  /\ dr' = IF dr.i + 1 < dr.x_end
              THEN [dr EXCEPT !.i = dr.i + 1, !.n = dr.n + 1]
              ELSE IF dr.j + 1 < dr.y_end
                THEN [dr EXCEPT !.i = dr.x, !.j = dr.j + 1, !.n = dr.n + 1]
                ELSE [dr EXCEPT !.status = "done", !.n = dr.n + 1]
  /\ ret' = "none"
  /\ UNCHANGED <<queueVars, vgaVars, timerVars, dram, pc, dp, isr, refresh_i,
                 isr_credit, histVars, fn_in, fn_out, drainVars, setup_pc,
                 h_oob, loopVars, origVars, ioVars, h_row_age>>

\* Lines 265-268: drawPixel has returned; false ends drawRect, true moves
\* on to the next pixel of the row, the next row, or the end.
drawRect_next ==
  /\ dr.status = "loop" /\ pc = "idle" /\ isr = "none"
  /\ ret # "none"
  /\ dr' = IF ret = "false"
              THEN [dr EXCEPT !.status = "aborted"]
              ELSE IF dr.i + 1 < dr.x_end
                THEN [dr EXCEPT !.i = dr.i + 1, !.n = dr.n + 1]
                ELSE IF dr.j + 1 < dr.y_end
                  THEN [dr EXCEPT !.i = dr.x, !.j = dr.j + 1, !.n = dr.n + 1]
                  ELSE [dr EXCEPT !.status = "done", !.n = dr.n + 1]
  /\ ret' = "none"
  /\ UNCHANGED <<queueVars, vgaVars, timerVars, dram, pc, dp, isr, refresh_i,
                 isr_credit, histVars, fn_in, fn_out, drainVars, setup_pc,
                 h_oob, loopVars, origVars, ioVars, h_row_age>>

Timer5_match_rect ==
  /\ ~OCF5A
  /\ frame_count < RectFrames
  /\ OCF5A' = TRUE
  /\ UNCHANGED <<queueVars, vgaVars, TCNT1, TCNT5, OCF1A, TCCR3B, sam, dram,
                 ctlVars, histVars, benchVars>>

NextRect ==
  \/ \E in \in RectInputs : drawRect_call(in[1], in[2], in[3], in[4], in[5])
  \/ drawRect_drawPixel
  \/ drawPixel_read_lo
  \/ drawPixel_compare
  \/ drawPixel_store
  \/ drawRect_next
  \/ Timer5_match_rect
  \/ TIMER5_COMPA_enter
  \/ applyBufferUpdates_write
  \/ applyBufferUpdates_return
  \/ TIMER5_COMPA_exit

SpecRect == InitRect /\ [][NextRect]_vars

\* The pixels of the rectangle drawRect was called for, and its k-th pixel
\* (from 0) in the order of the loops.
RectPixelsOf(r) ==
  { <<x, y>> : x \in r.x..(r.x + r.w - 1), y \in r.y..(r.y + r.h - 1) }
RectPixelAt(k) ==
  LET wd == dr.x_end - dr.x
  IN  [x |-> dr.x + (k % wd), y |-> dr.y + (k \div wd), color |-> dr.color]

\* C16 (as claimed): after clearFramebuffer(0x00), drawRect(10, 10, 4, 4,
\* 0x0F) run to its end and the ring drained, the 16 pixels of the
\* rectangle hold 0x0F in their DRAM cells and every other pixel, (9, 9)
\* among them, still holds 0x00.
C16_RectDrawn ==
  ( /\ dr.status = "done"
    /\ <<dr.x, dr.y, dr.w, dr.h, dr.color>> = <<10, 10, 4, 4, 15>>
    /\ dr.n = 16
    /\ Unread = 0 /\ isr = "exit" )
    => \A p \in RectWindow :
         dram[DramCellOf(p[1], p[2])]
           = IF p \in RectPixelsOf(dr) THEN 15 ELSE 0

\* C17: when drawPixel returns false to drawRect, drawRect ends at once:
\* the ring still holds, in order, the pixels it accepted that are not yet
\* written, every write of the drain is the oldest of them, nothing is
\* enqueued afterwards, and buffer_overflow is set exactly when a call of
\* the rectangle was rejected.
C17_PartialRectKept ==
  [][ /\ dr.status # "none" =>
           /\ ~h_stray
           /\ Len(h_owed) = Unread
           /\ \A k \in 1..Unread :
                /\ h_owed[k] = WriteArgs(RingContents[k])
                /\ RingContents[k]
                     = RectPixelAt(dr.n + (IF pc = "idle" /\ ret = "true" THEN 1 ELSE 0)
                                     - Unread + k - 1)
      /\ (dr.status = "loop" /\ dr'.status = "aborted")
           => /\ ret = "false"
              /\ UNCHANGED <<queueVars, dram, h_owed>>
      /\ dr.status = "aborted"
           => /\ UNCHANGED <<update_buffer, update_buffer_write_index, pc, dr>>
              /\ buffer_overflow
      /\ buffer_overflow
           => \/ dr.status = "aborted"
              \/ dr.status = "loop" /\ pc = "idle" /\ ret = "false"
    ]_vars

\* The pixels of the rectangle [x, x + w) x [y, y + h) that lie inside the
\* framebuffer, counted in row-major order: their number and the k-th of
\* them (from 0).
ClipWidth(r)  == Min(r.x + r.w, FRAMEBUFFER_WIDTH) - r.x
ClipHeight(r) == Min(r.y + r.h, FRAMEBUFFER_HEIGHT) - r.y
ClipCount(r)  ==
  IF ClipWidth(r) > 0 /\ ClipHeight(r) > 0 THEN ClipWidth(r) * ClipHeight(r)
                                           ELSE 0
ClipPixelAt(r, k) == <<r.x + (k % ClipWidth(r)), r.y + (k \div ClipWidth(r))>>

\* C35: when the ring has room (no call of drawPixel is rejected),
\* drawRect(x, y, w, h, c) enqueues exactly the pixels of [x, x + w) x
\* [y, y + h) that lie inside the framebuffer, in row-major order, also
\* when x + w or y + h exceeds 65535: every call it makes is for the next
\* of these pixels, and it ends when all of them were accepted.
C35_RectClipped ==
  /\ dr.status = "loop"
       => /\ dr.n < ClipCount(dr)
          /\ <<dr.i, dr.j>> = ClipPixelAt(dr, dr.n)
  /\ dr.status = "done" => dr.n = ClipCount(dr)

\* C17 witness: drawRect ended on a full ring after three pixels, and the
\* frame handler has since written the pixels that were queued.
C17_Witness ==
  /\ dr.status = "aborted" /\ dr.n = 3
  /\ Unread = 0 /\ isr = "exit" /\ Len(h_run_writes) = 2
  /\ buffer_overflow

\* ------------------------------------------------------------------------
\* SpecReport: loop() with its status report (lines 443-492), against both
\* interrupts requested at arbitrary moments
\* ------------------------------------------------------------------------
\* Frames followed past the frame the run is taken up at, and line
\* interrupts followed within a frame.
ReportSpan  == 2
ReportLines == 2

\* The status report needs frame_count to be a multiple of REPORT_FRAMES:
\* the run is taken up one frame earlier, between two passes of loop(),
\* with the ring empty and either flag set or not.
InitReport ==
  /\ InitRest
  /\ frame_count = REPORT_FRAMES - 1
  /\ last_frame = REPORT_FRAMES - 1
  /\ buffer_overflow \in BOOLEAN
  /\ timing_error \in BOOLEAN
  /\ h_burst_ok = FALSE
  /\ dram \in { d \in PowerUpDram : \A c \in ClearedCells : d[c] = 0 }
  /\ TCNT1 = 0 /\ TCNT5 = 0
  /\ fn_in = 0 /\ fn_out = "none"
  /\ BenchIdle

\* Lines 451-452: a new frame has been counted and no frame handler runs.
loop_begin ==
  /\ loop_pc = "idle" /\ pc = "idle" /\ isr = "none"
  /\ ~vblank_active /\ frame_count # last_frame
  /\ last_frame' = frame_count
  /\ loop_pc' = "draw"
  /\ UNCHANGED <<queueVars, vgaVars, timerVars, dram, ctlVars, histVars,
                 fn_in, fn_out, drainVars, setup_pc, h_oob, dr, origVars, ioVars,
                 h_row_age>>

\* Lines 454-472: the drawRect calls of the pass, as the drawPixel calls
\* they make.
loop_drawPixel(x, y, color) ==
  /\ loop_pc = "draw"
  /\ drawPixel_call(x, y, color)

\* Lines 474-487: the status report; it prints and clears the flags when
\* frame_count is a multiple of REPORT_FRAMES.
loop_status_report ==
  /\ loop_pc = "draw" /\ pc = "idle" /\ isr = "none"
  /\ IF frame_count % REPORT_FRAMES = 0
       THEN buffer_overflow' = FALSE /\ timing_error' = FALSE
       ELSE UNCHANGED <<buffer_overflow, timing_error>>
  /\ loop_pc' = "idle"
  /\ UNCHANGED <<update_buffer, update_buffer_write_index,
                 update_buffer_read_index, current_scanline,
                 current_video_line, vblank_active, frame_count, timerVars,
                 dram, ctlVars, histVars, fn_in, fn_out, drainVars, setup_pc,
                 h_oob, dr, last_frame, origVars, ioVars, h_row_age>>

\* Timer1 counts on, whatever the code does meanwhile; reaching TOP
\* requests the line interrupt.
Timer1_count_anytime ==
  /\ ~OCF1A
  /\ current_scanline < ReportLines
  /\ TCNT1' = (TCNT1 + 1) % Timer1Ticks
  /\ OCF1A' = (TCNT1 + 1 = Timer1Ticks)
  /\ UNCHANGED <<queueVars, vgaVars, TCNT5, OCF5A, TCCR3B, sam, dram,
                 ctlVars, histVars, benchVars>>

Timer5_match_report ==
  /\ ~OCF5A
  /\ frame_count < REPORT_FRAMES + ReportSpan
  /\ OCF5A' = TRUE
  /\ UNCHANGED <<queueVars, vgaVars, TCNT1, TCNT5, OCF1A, TCCR3B, sam, dram,
                 ctlVars, histVars, benchVars>>

NextReport ==
  \/ loop_begin
  \/ \E in \in TimerDrawInputs : loop_drawPixel(in[1], in[2], in[3])
  \/ drawPixel_read_lo
  \/ drawPixel_compare
  \/ drawPixel_store
  \/ loop_status_report
  \/ Timer1_count_anytime
  \/ TIMER1_COMPA_vect
  \/ Timer5_match_report
  \/ TIMER5_COMPA_enter
  \/ applyBufferUpdates_write
  \/ applyBufferUpdates_return
  \/ TIMER5_COMPA_exit

SpecReport == InitReport /\ [][NextReport]_vars

\* The step in which the status report clears the flags.
ReportStep ==
  /\ loop_pc = "draw" /\ loop_pc' = "idle"
  /\ isr = "none" /\ pc = "idle"
  /\ frame_count % REPORT_FRAMES = 0

\* C18: buffer_overflow and timing_error are sticky: a step in which one of
\* them goes from set to clear is the status report of the background
\* loop; no step of drawPixel, of the drain or of a handler clears one.
C18_FlagsSticky ==
  [][ ( \/ buffer_overflow /\ ~buffer_overflow'
        \/ timing_error /\ ~timing_error' )
        => ReportStep ]_vars

\* C32: vblank_active is true only while the frame handler runs, so the
\* background code, loop()'s test of line 451 included, never finds it set.
C32_LoopNeverSeesVBlank ==
  [][ /\ vblank_active' => isr' # "none"
      /\ (loop_pc' # loop_pc \/ pc' # pc \/ last_frame' # last_frame)
           => ~vblank_active
    ]_vars

\* C32 witness: loop() has passed its test on the frame a run of the frame
\* handler has just counted.
C32_Witness ==
  /\ loop_pc = "draw"
  /\ last_frame = REPORT_FRAMES
  /\ frame_count = REPORT_FRAMES
  /\ isr = "none" /\ ~vblank_active

\* C18 witness: both flags are set, a line handler has run on time, an
\* update has been accepted and the frame handler has drained it, and the
\* flags are still set.
C18_Witness ==
  /\ buffer_overflow /\ timing_error
  /\ isr = "exit" /\ Len(h_run_writes) >= 1
  /\ current_scanline >= 1
  /\ ret = "true"
  /\ frame_count = REPORT_FRAMES + 1

\* ------------------------------------------------------------------------
\* SpecOrig: mega_edo_fb8_320x240.ino, its drawPixel and its two interrupt
\* handlers, the compare matches requested at arbitrary moments.  An AVR
\* handler is entered only while the interrupt enable bit is set; entry
\* clears the bit, the return sets it, and so does interrupts().
\* ------------------------------------------------------------------------
\* The variables of the other sketch, all but the interrupt flags and the
\* pixel clock of the chip.
fixVars == <<ioVars, queueVars, vgaVars, TCNT1, TCNT5, sam, dram, ctlVars, histVars,
             fn_in, fn_out, drainVars, setup_pc, h_oob, dr, loopVars,
             h_row_age>>

\* drawPixel (lines 164-175), first part: the bounds check, the test for
\* room, the entry stored, the index loaded for the increment.
drawPixel_orig_store(x, y, color) ==
  /\ handler_pc = "none" /\ draw_pc = "idle"
  /\ ~(x < 0 \/ x >= FRAMEBUFFER_WIDTH \/ y < 0 \/ y >= FRAMEBUFFER_HEIGHT)
  /\ update_buffer_index < OrigBufferSize
  /\ orig_buffer' = [orig_buffer EXCEPT ![update_buffer_index] =
                        [x |-> x, y |-> y, color |-> color]]
  /\ draw_index' = update_buffer_index
  /\ draw_pc' = "inc"
  /\ h_orig_writes' = [h_orig_writes EXCEPT ![update_buffer_index] = 0]
  /\ UNCHANGED <<fixVars, OCF1A, OCF5A, TCCR3B, update_buffer_index,
                 vBlank_in_progress, currentScanline, currentRow, sreg_I,
                 handler_pc, apply_i, refresh_row, last_writeDram,
                 last_transfer, h_orig_frames>>

\* drawPixel returns without a store: out of bounds (line 165) or no room
\* (line 169).
drawPixel_orig_skip(x, y, color) ==
  /\ handler_pc = "none" /\ draw_pc = "idle"
  /\ \/ x < 0 \/ x >= FRAMEBUFFER_WIDTH \/ y < 0 \/ y >= FRAMEBUFFER_HEIGHT
     \/ update_buffer_index >= OrigBufferSize
  /\ draw_index' = update_buffer_index
  /\ UNCHANGED <<fixVars, OCF1A, OCF5A, TCCR3B, orig_buffer,
                 update_buffer_index, vBlank_in_progress, currentScanline,
                 currentRow, sreg_I, handler_pc, apply_i, refresh_row,
                 draw_pc, last_writeDram, last_transfer, h_orig_frames,
                 h_orig_writes>>

\* drawPixel, second part (line 173): the incremented index is stored.
drawPixel_orig_inc ==
  /\ handler_pc = "none" /\ draw_pc = "inc"
  /\ update_buffer_index' = draw_index + 1
  /\ draw_pc' = "idle"
  /\ UNCHANGED <<fixVars, OCF1A, OCF5A, TCCR3B, orig_buffer,
                 vBlank_in_progress, currentScanline, currentRow, sreg_I,
                 handler_pc, apply_i, refresh_row, draw_index,
                 last_writeDram, last_transfer, h_orig_frames,
                 h_orig_writes>>

\* The compare matches of Timer1 and Timer5 (lines 276-296).
Timer1_match_orig ==
  /\ ~OCF1A
  /\ currentScanline < OrigLines
  /\ OCF1A' = TRUE
  /\ UNCHANGED <<fixVars, OCF5A, TCCR3B, origVars>>

Timer5_match_orig ==
  /\ ~OCF5A
  /\ handler_pc = "none"
  /\ h_orig_frames < OrigFrames
  /\ OCF5A' = TRUE
  /\ UNCHANGED <<fixVars, OCF1A, TCCR3B, origVars>>

\* ISR(TIMER1_COMPA_vect) (lines 210-227), the whole handler.  It is
\* entered whenever its flag and the interrupt enable bit are set, in the
\* background code or inside a handler that has set the bit again.
TIMER1_COMPA_vect_orig ==
  /\ sreg_I /\ OCF1A
  /\ OCF1A' = FALSE
  /\ currentScanline' = currentScanline + 1
  /\ IF /\ currentScanline' >= ORIG_FIRST_ACTIVE
        /\ currentScanline' < FRAMEBUFFER_HEIGHT + ORIG_FIRST_ACTIVE
       THEN /\ last_transfer' = <<currentRow>>
            /\ currentRow' = currentRow + 1
            /\ TCCR3B' = 1
       ELSE /\ TCCR3B' = 0
            /\ UNCHANGED <<last_transfer, currentRow>>
  /\ UNCHANGED <<fixVars, OCF5A, orig_buffer, update_buffer_index,
                 vBlank_in_progress, sreg_I, handler_pc, apply_i,
                 refresh_row, draw_pc, draw_index, last_writeDram,
                 h_orig_frames,
                 h_orig_writes>>

\* ISR(TIMER5_COMPA_vect) (lines 230-247): entry and line 232.
TIMER5_COMPA_vect_orig_enter ==
  /\ sreg_I /\ OCF5A /\ ~OCF1A
  /\ handler_pc = "none"
  /\ OCF5A' = FALSE
  /\ sreg_I' = FALSE
  /\ vBlank_in_progress' = TRUE
  /\ handler_pc' = "apply"
  /\ apply_i' = 0
  /\ h_orig_frames' = h_orig_frames + 1
  /\ UNCHANGED <<fixVars, OCF1A, TCCR3B, orig_buffer, update_buffer_index,
                 currentScanline, currentRow, refresh_row, draw_pc,
                 draw_index, last_writeDram, last_transfer,
                 h_orig_writes>>

\* applyBufferToDRAM (lines 185-193), one pass of its loop: pixelIndex is
\* an unsigned int.
applyBufferToDRAM_pass ==
  /\ handler_pc = "apply"
  /\ apply_i < update_buffer_index
  /\ LET update     == orig_buffer[apply_i]
         pixelIndex == (update.y * FRAMEBUFFER_WIDTH + update.x) % UINT16
     IN  last_writeDram' = <<pixelIndex \div DRAM_COLS, pixelIndex % DRAM_COLS,
                             update.color>>
  /\ apply_i' = apply_i + 1
  /\ h_orig_writes' = [h_orig_writes EXCEPT ![apply_i] = @ + 1]
  /\ UNCHANGED <<fixVars, OCF1A, OCF5A, TCCR3B, orig_buffer,
                 update_buffer_index, vBlank_in_progress, currentScanline,
                 currentRow, sreg_I, handler_pc, refresh_row, draw_pc,
                 draw_index, last_transfer, h_orig_frames>>

\* Its loop ends; lines 238-240: noInterrupts(), the index reset, and
\* interrupts(), which sets the interrupt enable bit inside the handler.
applyBufferToDRAM_return ==
  /\ handler_pc = "apply"
  /\ apply_i >= update_buffer_index
  /\ update_buffer_index' = 0
  /\ sreg_I' = TRUE
  /\ handler_pc' = "refresh"
  /\ refresh_row' = 0
  /\ UNCHANGED <<fixVars, OCF1A, OCF5A, TCCR3B, orig_buffer,
                 vBlank_in_progress, currentScanline, currentRow, apply_i,
                 draw_pc, draw_index, last_writeDram, last_transfer,
                 h_orig_frames,
                 h_orig_writes>>

\* A pending line interrupt is taken before the interrupted code goes on.
LinePending == sreg_I /\ OCF1A

\* casBeforeRasRefresh (lines 145-159, called at line 242), one cycle.
casBeforeRasRefresh_cycle ==
  /\ handler_pc = "refresh" /\ ~LinePending
  /\ refresh_row < DRAM_ROWS
  /\ refresh_row' = refresh_row + 1
  /\ UNCHANGED <<fixVars, OCF1A, OCF5A, TCCR3B, orig_buffer,
                 update_buffer_index, vBlank_in_progress, currentScanline,
                 currentRow, sreg_I, handler_pc, apply_i, draw_pc,
                 draw_index, last_writeDram, last_transfer, h_orig_frames,
                 h_orig_writes>>

\* Its loop ends; lines 244-246 and the return from the handler.
TIMER5_COMPA_vect_orig_exit ==
  /\ handler_pc = "refresh" /\ ~LinePending
  /\ refresh_row = DRAM_ROWS
  /\ currentScanline' = 0
  /\ currentRow' = 0
  /\ vBlank_in_progress' = FALSE
  /\ handler_pc' = "none"
  /\ sreg_I' = TRUE
  /\ UNCHANGED <<fixVars, OCF1A, OCF5A, TCCR3B, orig_buffer,
                 update_buffer_index, apply_i, refresh_row, draw_pc,
                 draw_index, last_writeDram, last_transfer, h_orig_frames,
                 h_orig_writes>>

NextOrig ==
  \/ \E in \in OrigDrawInputs : drawPixel_orig_store(in[1], in[2], in[3])
  \/ \E in \in OrigDrawInputs : drawPixel_orig_skip(in[1], in[2], in[3])
  \/ drawPixel_orig_inc
  \/ Timer1_match_orig
  \/ Timer5_match_orig
  \/ TIMER1_COMPA_vect_orig
  \/ TIMER5_COMPA_vect_orig_enter
  \/ applyBufferToDRAM_pass
  \/ applyBufferToDRAM_return
  \/ casBeforeRasRefresh_cycle
  \/ TIMER5_COMPA_vect_orig_exit

SpecOrig == Init /\ [][NextOrig]_vars

\* C20 (as claimed): once the frame handler of mega_edo_fb8_320x240.ino has
\* started, the line handler does not run before it has returned: no line
\* is counted and no row is transferred while the frame handler is between
\* its entry and its return.
C20_FrameHandlerNotSuspended ==
  [][ ( \/ currentScanline' = currentScanline + 1
        \/ currentRow' = currentRow + 1 )
        => handler_pc = "none" ]_vars

\* ------------------------------------------------------------------------
\* Claims about the refresh, checked under SpecTimers
\* ------------------------------------------------------------------------
\* C12 (as claimed): every run of the frame handler calls refreshDRAM: when
\* applyBufferUpdates has returned, the refresh loop is what runs next.
C12_RefreshEveryFrame ==
  [][ (isr = "apply" /\ isr' # "apply") => isr' = "refresh" ]_vars

\* C13 (as claimed): while the timers run, no row of the array, the
\* watched row among them, goes longer than the refresh interval without a
\* refresh.
C13_RowWithinRetention ==
  h_row_age <= RetentionTicks

\* C19 (as claimed): a line handler that is entered late, a tick or more
\* after the compare match that requested it because the frame handler was
\* still running, sets timing_error.
C19_LateLineFlagged ==
  [][ (LineStep /\ TCNT1 >= 1) => timing_error' ]_vars

\* ------------------------------------------------------------------------
\* SpecDrain: the loop of applyBufferUpdates (lines 273-285) on a ring of
\* the program's size, with the CPU clocks it spends
\* ------------------------------------------------------------------------
\* Slots of update_buffer in the program (line 87).
PROGRAM_BUFFER_SIZE == 512

\* Clocks of the instructions of writeDRAM's write cycle (lines 144-161):
\* cbi, 3 nop, cbi, cbi, out, 3 nop, sbi, sbi, nop, sbi.
WriteCycleClocks == 2 + 3 + 2 + 2 + 1 + 3 + 2 + 2 + 1 + 2
\* Clocks of one access to a volatile 16-bit index in memory: two byte
\* accesses of two clocks.
IndexAccessClocks == 2 * 2
\* Clocks one pass of the loop takes at the least: the two index reads of
\* the loop condition, the read and the write of the index advance, and the
\* write cycle.  Address arithmetic, port setup and the call come on top.
DrainEntryClocks == 4 * IndexAccessClocks + WriteCycleClocks
\* Clocks of the vertical blank: the blanking lines of one frame.
VBlankClocks == (V_FRONT_PORCH + V_SYNC_PULSE + V_BACK_PORCH) * h_total_cycles

\* Read index values the bench starts from.
DrainStarts == { 0, PROGRAM_BUFFER_SIZE - 2 }

InitDrain ==
  /\ InitCommon
  /\ TCNT1 = 0 /\ TCNT5 = 0
  /\ fn_in = 0 /\ fn_out = "none"
  /\ drain_read \in DrainStarts
  /\ drain_write \in 0..(PROGRAM_BUFFER_SIZE - 1)
  /\ drain_cycles = 0
  /\ drain_pc = "loop"
  /\ SetupDone

\* One pass of the loop body (lines 274-284).
applyBufferUpdates_pass ==
  /\ drain_pc = "loop"
  /\ drain_read # drain_write
  /\ drain_read' = (drain_read + 1) % PROGRAM_BUFFER_SIZE
  /\ drain_cycles' = drain_cycles + DrainEntryClocks
  /\ UNCHANGED <<queueVars, vgaVars, timerVars, dram, ctlVars, histVars,
                 fn_in, fn_out, drain_write, drain_pc, auxVars, h_row_age>>

\* The loop condition fails (line 274): the function returns.
applyBufferUpdates_done ==
  /\ drain_pc = "loop"
  /\ drain_read = drain_write
  /\ drain_pc' = "returned"
  /\ UNCHANGED <<queueVars, vgaVars, timerVars, dram, ctlVars, histVars,
                 fn_in, fn_out, drain_read, drain_write, drain_cycles,
                 auxVars, h_row_age>>

NextDrain == applyBufferUpdates_pass \/ applyBufferUpdates_done

SpecDrain == InitDrain /\ [][NextDrain]_vars

\* C11 (as claimed): a run of the drain stays within the vertical blank:
\* it makes no pass of its loop that ends after the blank's clocks are
\* spent, so a backlog that takes longer is left queued in part.
C11_DrainWithinVBlank ==
  drain_pc # "none" => drain_cycles <= VBlankClocks


\* ------------------------------------------------------------------------
\* src/unnamed/part_002: writeDram and readDram on the chip's pins
\* ------------------------------------------------------------------------
\* Every variable the driver's steps leave alone.
driverRest == <<portVars, timedVars, mapVars, wideVars, clockVars, queueVars, vgaVars, timerVars, dram, ctlVars, histVars,
                fn_in, fn_out, drainVars, setup_pc, h_oob, dr, loopVars,
                origVars, h_row_age>>

\* setAddress (lines 61-65) and writeDataBus (lines 68-72): bit i of the
\* argument goes to pin i, for as many pins as the bus has.
RECURSIVE PinBits(_, _, _)
PinBits(value, i, count) ==
  IF i = count THEN 0
  ELSE ((value \div (2 ^ i)) % 2) * (2 ^ i) + PinBits(value, i + 1, count)
setAddress(address) == PinBits(address, 0, ADDRESS_PINS_COUNT)
writeDataBus(data) == PinBits(data, 0, DATA_PINS_COUNT)

\* The statements of writeDram (lines 104-129) that change a pin, in order.
writeDram_program_nowe ==
  << <<"setDataBusMode", "OUTPUT">>, <<"digitalWrite", "WE", HIGH>>,
     <<"digitalWrite", "OE", HIGH>>,
     <<"setAddress", "row">>, <<"digitalWrite", "RAS", LOW>>,
     <<"setAddress", "col">>, <<"writeDataBus">>,
     <<"digitalWrite", "CAS", LOW>>,
     <<"digitalWrite", "CAS", HIGH>>, <<"digitalWrite", "WE", HIGH>>,
     <<"digitalWrite", "RAS", HIGH>> >>
writeDram_program ==
  << <<"setDataBusMode", "OUTPUT">>, <<"digitalWrite", "WE", HIGH>>,
     <<"digitalWrite", "OE", HIGH>>,
     <<"setAddress", "row">>, <<"digitalWrite", "RAS", LOW>>,
     <<"setAddress", "col">>, <<"writeDataBus">>,
     <<"digitalWrite", "CAS", LOW>>, <<"digitalWrite", "WE", LOW>>,
     <<"digitalWrite", "CAS", HIGH>>, <<"digitalWrite", "WE", HIGH>>,
     <<"digitalWrite", "RAS", HIGH>> >>

\* The statements of readDram (lines 132-163).
readDram_program ==
  << <<"setDataBusMode", "INPUT">>, <<"digitalWrite", "WE", HIGH>>,
     <<"digitalWrite", "OE", HIGH>>,
     <<"setAddress", "row">>, <<"digitalWrite", "RAS", LOW>>,
     <<"setAddress", "col">>,
     <<"digitalWrite", "CAS", LOW>>, <<"digitalWrite", "OE", LOW>>,
     <<"readDataBus">>,
     <<"digitalWrite", "OE", HIGH>>, <<"digitalWrite", "CAS", HIGH>>,
     <<"digitalWrite", "RAS", HIGH>> >>

\* The pins after one statement of a call with parameters and locals f.
DriverExec(op, p, f) ==
  CASE op[1] = "setDataBusMode" -> [p EXCEPT !.mode = op[2]]
    [] op[1] = "digitalWrite"   -> [p EXCEPT ![op[2]] = op[3]]
    [] op[1] = "setAddress"     -> [p EXCEPT !.addr = setAddress(f[op[2]])]
    [] op[1] = "writeDataBus"   -> [p EXCEPT !.data = writeDataBus(f.data)]
    [] OTHER                    -> p

\* The levels the four data lines may carry: what the sketch drives when
\* its pins are outputs; the addressed cell when the chip drives them (RAS
\* and CAS low, WE high, OE low); anything otherwise.
DataLines(c, p) ==
  LET cell == <<c.row, c.col>>
  IN  IF p.mode = "OUTPUT" THEN {p.data}
      ELSE IF /\ p.RAS = LOW /\ p.CAS = LOW /\ p.WE = HIGH /\ p.OE = LOW
              /\ cell \in DriverCells
              /\ c.cells[cell] # NoColor
           THEN {c.cells[cell]}
           ELSE FloatLevels

\* The chip after the pins went from old to new with dq on the data lines:
\* it latches the row address when RAS falls with CAS high and the column
\* address when CAS falls with RAS low, and stores dq in the addressed cell
\* when CAS falls with WE low or WE falls with CAS low (the order of lines
\* 120-121).
ChipAfter(c, old, new, dq) ==
  LET ras_fall == old.RAS = HIGH /\ new.RAS = LOW
      cas_fall == new.RAS = LOW /\ old.CAS = HIGH /\ new.CAS = LOW
      we_fall  == new.RAS = LOW /\ old.WE = HIGH /\ new.WE = LOW
      row  == IF ras_fall /\ new.CAS = HIGH THEN new.addr ELSE c.row
      col  == IF cas_fall THEN new.addr ELSE c.col
      cell == <<row, col>>
      store == (cas_fall /\ new.WE = LOW) \/ (we_fall /\ new.CAS = LOW)
  IN  [row |-> row, col |-> col,
       cells |-> IF store /\ cell \in DriverCells
                   THEN [c.cells EXCEPT ![cell] = dq] ELSE c.cells]

\* One statement of the running function; readDataBus (lines 75-83) loads
\* the local data from the data lines.
DriverStep(fn, program) ==
  /\ drv_pc.fn = fn
  /\ drv_pc.i <= Len(program)
  /\ LET op  == program[drv_pc.i]
         new == DriverExec(op, drv_pins, drv_pc)
     IN  /\ drv_pins' = new
         /\ \E dq \in DataLines(chip, new) :
              /\ chip' = ChipAfter(chip, drv_pins, new, dq)
              /\ drv_pc' = [drv_pc EXCEPT
                              !.i = @ + 1,
                              !.data = IF op[1] = "readDataBus" THEN dq ELSE @]
  /\ UNCHANGED <<h_driver, driverRest>>

writeDram_call(row, col, data) ==
  /\ drv_pc.fn = "idle"
  /\ drv_pc' = [drv_pc EXCEPT !.fn = "writeDram", !.i = 1, !.row = row,
                              !.col = col, !.data = data]
  /\ UNCHANGED <<drv_pins, chip, h_driver, driverRest>>

writeDram_step == DriverStep("writeDram", writeDram_program)

writeDram_return ==
  /\ drv_pc.fn = "writeDram"
  /\ drv_pc.i > Len(writeDram_program)
  /\ drv_pc' = [drv_pc EXCEPT !.fn = "idle"]
  /\ h_driver' = [prev |-> <<"writeDram", drv_pc.row, drv_pc.col, drv_pc.data>>,
                  expect |-> NoColor]
  /\ UNCHANGED <<drv_pins, chip, driverRest>>

\* readDram's byte data = 0 (line 133). The history keeps the value of a
\* writeDram to the same cell that returned just before this call.
readDram_call(row, col) ==
  /\ drv_pc.fn = "idle"
  /\ drv_pc' = [drv_pc EXCEPT !.fn = "readDram", !.i = 1, !.row = row,
                              !.col = col, !.data = 0]
  /\ h_driver' = [h_driver EXCEPT
                    !.expect = IF h_driver.prev[1] = "writeDram"
                                  /\ h_driver.prev[2] = row
                                  /\ h_driver.prev[3] = col
                                 THEN h_driver.prev[4] ELSE NoColor]
  /\ UNCHANGED <<drv_pins, chip, driverRest>>

readDram_step == DriverStep("readDram", readDram_program)

\* return data (line 162).
readDram_return ==
  /\ drv_pc.fn = "readDram"
  /\ drv_pc.i > Len(readDram_program)
  /\ drv_pc' = [drv_pc EXCEPT !.fn = "idle", !.ret = drv_pc.data]
  /\ h_driver' = [h_driver EXCEPT
                    !.prev = <<"readDram", drv_pc.row, drv_pc.col, drv_pc.data>>]
  /\ UNCHANGED <<drv_pins, chip, driverRest>>

NextDriver ==
  \/ \E row \in DriverRows, col \in DriverCols, data \in DriverValues :
       writeDram_call(row, col, data)
  \/ writeDram_step
  \/ writeDram_return
  \/ \E row \in DriverRows, col \in DriverCols : readDram_call(row, col)
  \/ readDram_step
  \/ readDram_return

SpecDriver == Init /\ [][NextDriver]_vars

\* C22: a readDram(row, col) that follows a writeDram(row, col, v) with no
\* call between them returns v.
C22_RoundTrip ==
  (/\ drv_pc.fn = "idle"
   /\ h_driver.prev[1] = "readDram"
   /\ h_driver.expect # NoColor)
    => drv_pc.ret = h_driver.expect

\* C22 witness: the value 10 written to cell (511, 511) has been read back
\* while another cell holds 15.
C22_Witness ==
  /\ drv_pc.fn = "idle"
  /\ h_driver.prev = <<"readDram", 511, 511, 10>>
  /\ h_driver.expect = 10
  /\ drv_pc.ret = 10
  /\ chip.cells[<<0, 511>>] = 15


\* ------------------------------------------------------------------------
\* mega_edo_fb8_320x240_fix.ino: the DRAM functions, instruction by
\* instruction, on the port registers (lines 119-228)
\* ------------------------------------------------------------------------
portRest == <<driverVars, timedVars, mapVars, wideVars, clockVars, queueVars, vgaVars, timerVars, dram, ctlVars,
              histVars, fn_in, fn_out, drainVars, setup_pc, h_oob, dr,
              loopVars, origVars, h_row_age>>

\* Rows, columns and colors of the calls the model makes.
PortRows == {0, 2, 5}
PortCols == {0, 8, 24, 511}
PortColors == {3, 12}

\* setDRAMAddress (lines 127-133): its three register writes.
setDRAMAddress_writes ==
  << <<"ADDRESS_PORT_D">>, <<"ADDRESS_PORT_L">>, <<"ADDRESS_PORT_C">> >>

\* writeDRAM (lines 136-174).
writeDRAM_asm ==
  << <<"DATA_PORT_DDR", 15>> >> \o setDRAMAddress_writes \o
  << <<"cbi", "PORTL", RAS_BIT>>, <<"nop">>, <<"nop">>, <<"nop">>,
     <<"cbi", "PORTL", CAS_BIT>>, <<"cbi", "PORTC", WE_BIT>>,
     <<"out", "PORTA">>, <<"nop">>, <<"nop">>, <<"nop">>,
     <<"sbi", "PORTC", WE_BIT>>, <<"sbi", "PORTL", CAS_BIT>>,
     <<"nop">>,
     <<"sbi", "PORTL", RAS_BIT>> >>

\* transferRowToSAM (lines 177-206).
transferRowToSAM_asm ==
  << <<"DATA_PORT_DDR", 0>> >> \o setDRAMAddress_writes \o
  << <<"cbi", "PORTL", RAS_BIT>>, <<"nop">>, <<"nop">>,
     <<"cbi", "PORTC", OE_BIT>>, <<"nop">>, <<"nop">>,
     <<"sbi", "PORTC", OE_BIT>>,
     <<"sbi", "PORTL", RAS_BIT>> >>

\* The body of refreshDRAM's loop (lines 211-226).
refreshDRAM_asm_ras_first ==
  << <<"cbi", "PORTL", RAS_BIT>>, <<"nop">>, <<"nop">>,
     <<"cbi", "PORTL", CAS_BIT>>,
     <<"nop">>, <<"nop">>, <<"nop">>, <<"nop">>,
     <<"sbi", "PORTL", RAS_BIT>>, <<"sbi", "PORTL", CAS_BIT>>,
     <<"nop">> >>
refreshDRAM_asm ==
  << <<"cbi", "PORTL", CAS_BIT>>, <<"nop">>, <<"nop">>,
     <<"cbi", "PORTL", RAS_BIT>>,
     <<"nop">>, <<"nop">>, <<"nop">>, <<"nop">>,
     <<"sbi", "PORTL", RAS_BIT>>, <<"sbi", "PORTL", CAS_BIT>>,
     <<"nop">> >>

\* The registers after one instruction or register write of a call with
\* parameters f.
PortExec(op, r, f) ==
  CASE op[1] = "DATA_PORT_DDR" -> [r EXCEPT !.DDRA = op[2]]
    [] op[1] = "ADDRESS_PORT_D" ->
         [r EXCEPT !.PORTD = BitOr(BitAnd(@, 252), BitAnd(f.col, 3))]
    [] op[1] = "ADDRESS_PORT_L" ->
         [r EXCEPT !.PORTL = BitOr(BitAnd(@, 195), BitAnd(f.col \div 4, 15) * 4)]
    [] op[1] = "ADDRESS_PORT_C" ->
         [r EXCEPT !.PORTC = BitOr(BitAnd(@, 143), BitAnd(f.row, 7) * 16)]
    [] op[1] = "cbi" -> [r EXCEPT ![op[2]] = BitAnd(@, 255 - 2 ^ op[3])]
    [] op[1] = "sbi" -> [r EXCEPT ![op[2]] = BitOr(@, 2 ^ op[3])]
    [] op[1] = "out" -> [r EXCEPT ![op[2]] = f.color % 256]
    [] OTHER -> r

\* The strobes that change level between two register states, with their
\* new levels.
Changes(old, new) ==
  { <<n, Strobes(new)[n]>> : n \in { k \in StrobeNames :
                                       Strobes(old)[k] # Strobes(new)[k] } }

\* One instruction of the running function. The history keeps, per step
\* that changes strobes or drives the data port, what it did, and counts
\* the falls of RAS.
PortStep(fn, program, keep) ==
  /\ pin_pc.fn = fn
  /\ pin_pc.i <= Len(program)
  /\ LET op  == program[pin_pc.i]
         new == PortExec(op, io, pin_pc)
         did == Changes(io, new) \cup
                  (IF op[1] = "out" THEN {<<"DATA", new.PORTA>>} ELSE {})
     IN  /\ io' = new
         /\ h_pins' = [events |-> IF keep /\ did # {}
                                    THEN Append(h_pins.events, did)
                                    ELSE h_pins.events,
                       cycles |-> IF <<"RAS", LOW>> \in did
                                    THEN h_pins.cycles + 1 ELSE h_pins.cycles]
  /\ pin_pc' = [pin_pc EXCEPT !.i = @ + 1]
  /\ UNCHANGED portRest

PortCall(fn, row, col, color) ==
  /\ pin_pc.fn = "idle"
  /\ pin_pc' = [fn |-> fn, i |-> 1, row |-> row, col |-> col,
                color |-> color, n |-> 0]
  /\ h_pins' = [events |-> <<>>, cycles |-> 0]
  /\ UNCHANGED <<io, portRest>>

PortReturn(fn, program) ==
  /\ pin_pc.fn = fn
  /\ pin_pc.i > Len(program)
  /\ pin_pc' = [pin_pc EXCEPT !.fn = "idle"]
  /\ UNCHANGED <<io, h_pins, portRest>>

writeDRAM_enter(row, col, color) == PortCall("writeDRAM", row, col, color)
writeDRAM_insn == PortStep("writeDRAM", writeDRAM_asm, TRUE)
writeDRAM_leave == PortReturn("writeDRAM", writeDRAM_asm)

\* setDRAMAddress(row, 0) (line 181).
transferRowToSAM_enter(row) == PortCall("transferRowToSAM", row, 0, 0)
transferRowToSAM_insn == PortStep("transferRowToSAM", transferRowToSAM_asm, TRUE)
transferRowToSAM_leave == PortReturn("transferRowToSAM", transferRowToSAM_asm)

refreshDRAM_enter == PortCall("refreshDRAM", 0, 0, 0)
refreshDRAM_insn == PortStep("refreshDRAM", refreshDRAM_asm, FALSE)
\* i++ and the loop test (line 210).
refreshDRAM_loop ==
  /\ pin_pc.fn = "refreshDRAM"
  /\ pin_pc.i > Len(refreshDRAM_asm)
  /\ pin_pc.n + 1 < DRAM_ROWS
  /\ pin_pc' = [pin_pc EXCEPT !.i = 1, !.n = @ + 1]
  /\ UNCHANGED <<io, h_pins, portRest>>
refreshDRAM_leave ==
  /\ pin_pc.n + 1 >= DRAM_ROWS
  /\ PortReturn("refreshDRAM", refreshDRAM_asm)

NextPorts ==
  \/ \E row \in PortRows, col \in PortCols, color \in PortColors :
       writeDRAM_enter(row, col, color)
  \/ writeDRAM_insn
  \/ writeDRAM_leave
  \/ \E row \in PortRows : transferRowToSAM_enter(row)
  \/ transferRowToSAM_insn
  \/ transferRowToSAM_leave
  \/ refreshDRAM_enter
  \/ refreshDRAM_insn
  \/ refreshDRAM_loop
  \/ refreshDRAM_leave

SpecPorts == Init /\ [][NextPorts]_vars

\* What a call did to the strobes in names, and to the data port, in order.
Range(f) == { f[i] : i \in DOMAIN f }

RECURSIVE EventsOf(_, _)
EventsOf(events, names) ==
  IF events = <<>> THEN <<>>
  ELSE LET e == { c \in Head(events) : c[1] \in names }
       IN  (IF e = {} THEN <<>> ELSE <<e>>) \o EventsOf(Tail(events), names)

AtReturn(fn, program) == pin_pc.fn = fn /\ pin_pc.i > Len(program)


\* C23 (as claimed): by the time writeDRAM returns it has asserted RAS, then
\* CAS and WE, then driven the value on the data port, then released WE,
\* then CAS, then RAS, and has moved these strobes in no other way; the
\* three are high at the return.
C23_WriteStrobeOrder ==
  AtReturn("writeDRAM", writeDRAM_asm) =>
    /\ EventsOf(h_pins.events, {"RAS", "CAS", "WE", "DATA"}) \in
         { << {<<"RAS", LOW>>}, {<<"CAS", LOW>>}, {<<"WE", LOW>>},
              {<<"DATA", pin_pc.color % 256>>},
              {<<"WE", HIGH>>}, {<<"CAS", HIGH>>}, {<<"RAS", HIGH>>} >>,
           << {<<"RAS", LOW>>}, {<<"WE", LOW>>}, {<<"CAS", LOW>>},
              {<<"DATA", pin_pc.color % 256>>},
              {<<"WE", HIGH>>}, {<<"CAS", HIGH>>}, {<<"RAS", HIGH>>} >>,
           << {<<"RAS", LOW>>}, {<<"CAS", LOW>>, <<"WE", LOW>>},
              {<<"DATA", pin_pc.color % 256>>},
              {<<"WE", HIGH>>}, {<<"CAS", HIGH>>}, {<<"RAS", HIGH>>} >> }
    /\ Strobes(io).RAS = HIGH
    /\ Strobes(io).CAS = HIGH
    /\ Strobes(io).WE = HIGH

\* C24 (as claimed): by the time transferRowToSAM returns it has asserted
\* RAS, then OE, then released OE, then RAS, and has not moved WE; RAS and
\* OE are high at the return.
C24_TransferStrobeOrder ==
  AtReturn("transferRowToSAM", transferRowToSAM_asm) =>
    /\ EventsOf(h_pins.events, {"RAS", "OE", "WE"}) =
         << {<<"RAS", LOW>>}, {<<"OE", LOW>>},
            {<<"OE", HIGH>>}, {<<"RAS", HIGH>>} >>
    /\ Strobes(io).RAS = HIGH
    /\ Strobes(io).OE = HIGH

\* C25: inside refreshDRAM, RAS falls only while CAS is already low and CAS
\* rises only while RAS is already high, and the call returns after
\* DRAM_ROWS falls of RAS.
C25_RefreshCycles ==
  [][ pin_pc.fn = "refreshDRAM" =>
        /\ (Strobes(io).RAS = HIGH /\ Strobes(io').RAS = LOW)
             => (Strobes(io).CAS = LOW /\ Strobes(io').CAS = LOW)
        /\ (Strobes(io).CAS = LOW /\ Strobes(io').CAS = HIGH)
             => (Strobes(io).RAS = HIGH /\ Strobes(io').RAS = HIGH)
        /\ pin_pc'.fn = "idle" => h_pins.cycles = DRAM_ROWS
    ]_vars

\* C25 witness: a refreshDRAM call has returned after its DRAM_ROWS cycles,
\* with both strobes released.
C25_Witness ==
  /\ pin_pc.fn = "idle"
  /\ h_pins.cycles = DRAM_ROWS
  /\ Strobes(io).RAS = HIGH
  /\ Strobes(io).CAS = HIGH

\* The register write the running function makes next, if it is one of
\* setDRAMAddress.
InSetDRAMAddress ==
  \/ /\ pin_pc.fn = "writeDRAM" /\ pin_pc.i <= Len(writeDRAM_asm)
     /\ writeDRAM_asm[pin_pc.i] \in Range(setDRAMAddress_writes)
  \/ /\ pin_pc.fn = "transferRowToSAM"
     /\ pin_pc.i <= Len(transferRowToSAM_asm)
     /\ transferRowToSAM_asm[pin_pc.i] \in Range(setDRAMAddress_writes)

\* C30 (as claimed): a register write of setDRAMAddress leaves the levels of
\* RAS, CAS, WE, OE, SE and VSYNC as they were.
C30_AddressOnly ==
  [][ (InSetDRAMAddress /\ io' # io) => Strobes(io') = Strobes(io) ]_vars


\* ------------------------------------------------------------------------
\* src/unnamed/part_001 (and src/dram/511000_opt.ino): refreshIfNeeded
\* ------------------------------------------------------------------------
timedRest == <<driverVars, portVars, mapVars, wideVars, clockVars, queueVars, vgaVars, timerVars, dram,
               ctlVars, histVars, fn_in, fn_out, drainVars, setup_pc, h_oob,
               dr, loopVars, origVars, h_row_age>>

\* Calls of refreshIfNeeded a run of the model makes, and the longest time
\* it lets pass without a run of refreshAllRows.
RefreshCalls == 4
MaxElapsed == 600

\* Counter values at which a run of refreshAllRows has just been recorded:
\* 0, one second, and 500, 250 and 1 microseconds before the counter wraps.
RefreshStarts ==
  { <<0, 0>>, <<15, 16960>>, <<HALF - 1, HALF - 500>>,
    <<HALF - 1, HALF - 250>>, <<HALF - 1, HALF - 1>> }
\* Microseconds that pass between two calls.
TimeSteps == {125, 249, 250, 251}

InitTimed ==
  /\ InitShared
  /\ buffer_overflow = FALSE
  /\ frame_count = 0
  /\ timing_error = FALSE
  /\ last_frame = 0
  /\ h_burst_ok = TRUE
  /\ dram = [c \in DramCells |-> 0]
  /\ TCNT1 = 0 /\ TCNT5 = 0
  /\ fn_in = 0 /\ fn_out = "none"
  /\ BenchIdle
  /\ MapIdle
  /\ WideIdle
  /\ ClockInit
  /\ micros \in RefreshStarts
  /\ lastRefreshMicros = micros
  /\ refresh_calls = 0
  /\ refresh_runs = 0
  /\ h_elapsed = 0

\* The counter advances between calls.
micros_advance(d) ==
  /\ refresh_calls < RefreshCalls
  /\ h_elapsed + d <= MaxElapsed
  /\ micros' = Add32(micros, d)
  /\ h_elapsed' = h_elapsed + d
  /\ UNCHANGED <<lastRefreshMicros, refresh_calls, refresh_runs, timedRest>>

\* refreshIfNeeded (lines 87-93).
refreshIfNeeded ==
  /\ refresh_calls < RefreshCalls
  /\ refresh_calls' = refresh_calls + 1
  /\ LET now == micros
     IN  IF GE32(Elapsed32(now, lastRefreshMicros), refreshInterval)
           THEN /\ refresh_runs' = refresh_runs + 1
                /\ lastRefreshMicros' = now
                /\ h_elapsed' = 0
           ELSE UNCHANGED <<refresh_runs, lastRefreshMicros, h_elapsed>>
  /\ UNCHANGED <<micros, timedRest>>

NextTimed ==
  \/ \E d \in TimeSteps : micros_advance(d)
  \/ refreshIfNeeded

SpecTimed == InitTimed /\ [][NextTimed]_vars

ORIG_LINE_CYCLES == 640
ORIG_FRAME_CYCLES == 167680
ORIG_ICR1 == (ORIG_LINE_CYCLES - 1) % UINT16
ORIG_ICR5 == (ORIG_FRAME_CYCLES - 1) % UINT16
ORIG_OCR5A == (ORIG_FRAME_CYCLES - 1 - (ORIG_FRAME_CYCLES \div 525)) % UINT16
\* Fast PWM with TOP in ICRn: the counters run 0..ICRn.
OrigCyclesPerTick == GCD(GCD(ORIG_ICR1 + 1, ORIG_ICR5 + 1), ORIG_OCR5A)
OrigTimer1Ticks == (ORIG_ICR1 + 1) \div OrigCyclesPerTick
OrigTimer5Ticks == (ORIG_ICR5 + 1) \div OrigCyclesPerTick
OrigOCR5ATick == ORIG_OCR5A \div OrigCyclesPerTick

\* OrigCyclesPerTick clock cycles pass: Timer1 matches OCR1A = ICR1 when it
\* wraps, Timer5 matches when it reaches OCR5A.
Tick_orig ==
  /\ handler_pc = "none" /\ ~OCF1A /\ ~OCF5A
  /\ h_orig_frames < OrigFrames
  /\ TCNT1' = (TCNT1 + 1) % OrigTimer1Ticks
  /\ OCF1A' = (TCNT1' = 0)
  /\ TCNT5' = (TCNT5 + 1) % OrigTimer5Ticks
  /\ OCF5A' = (TCNT5' = OrigOCR5ATick)
  /\ UNCHANGED <<ioVars, queueVars, vgaVars, sam, dram, ctlVars, histVars,
                 fn_in, fn_out, drainVars, setup_pc, h_oob, dr, loopVars,
                 h_row_age, TCCR3B, origVars>>

NextOrigTimed ==
  \/ \E in \in OrigDrawInputs : drawPixel_orig_store(in[1], in[2], in[3])
  \/ \E in \in OrigDrawInputs : drawPixel_orig_skip(in[1], in[2], in[3])
  \/ drawPixel_orig_inc
  \/ Tick_orig
  \/ TIMER1_COMPA_vect_orig
  \/ TIMER5_COMPA_vect_orig_enter
  \/ applyBufferToDRAM_pass
  \/ applyBufferToDRAM_return
  \/ casBeforeRasRefresh_cycle
  \/ TIMER5_COMPA_vect_orig_exit

SpecOrigTimed == Init /\ [][NextOrigTimed]_vars

\* C27 (as claimed): when the frame handler resets the counters, the frame
\* it ends has had FRAMEBUFFER_HEIGHT active lines, the scanline counter
\* having gone through 35..274.
C27_ActiveLinesPerFrame ==
  [][ (handler_pc = "refresh" /\ handler_pc' = "none")
        => /\ currentRow = FRAMEBUFFER_HEIGHT
           /\ currentScanline >= ORIG_FIRST_ACTIVE + FRAMEBUFFER_HEIGHT - 1
    ]_vars


\* ------------------------------------------------------------------------
\* mega_edo_fb8_320x240_fix.ino: the row and column a pixel is written to
\* (lines 273-298) and the row a video line is read from (lines 316-322)
\* ------------------------------------------------------------------------
\* Video lines the line handler serves in a run of the model.
MapLines == 4
\* The pixels followed: first, middle and last columns of the first lines.
MapPixels == {0, 1, 191, 192, 319} \X (0..(MapLines - 1))

InitMap ==
  /\ InitShared
  /\ TimedInit
  /\ buffer_overflow = FALSE
  /\ frame_count = 0
  /\ timing_error = FALSE
  /\ last_frame = 0
  /\ h_burst_ok = TRUE
  /\ dram = [c \in DramCells |-> 0]
  /\ TCNT1 = 0 /\ TCNT5 = 0
  /\ fn_in = 0 /\ fn_out = "none"
  /\ BenchIdle
  /\ WideIdle
  /\ ClockInit
  /\ map_pixel \in MapPixels
  /\ map_cell = <<>>
  /\ h_transferred = <<>>

\* The writeDRAM call applyBufferUpdates makes for an entry of the pixel
\* (lines 277-281); clearFramebuffer splits its pixel_index the same way
\* (lines 292-294).
applyBufferUpdates_locate ==
  /\ map_cell = <<>>
  /\ LET args == WriteArgs([x |-> map_pixel[1], y |-> map_pixel[2], color |-> 0])
     IN  map_cell' = <<args[1], args[2]>>
  /\ UNCHANGED <<map_pixel, h_transferred, driverVars, portVars, timedVars,
                 wideVars, clockVars,
                 queueVars, vgaVars, timerVars, dram, ctlVars, histVars,
                 fn_in, fn_out, drainVars, setup_pc, h_oob, dr, loopVars,
                 origVars, h_row_age>>

\* The line handler on an active line (lines 320-322): the row it calls
\* transferRowToSAM with, and the video line counted on.
TIMER1_COMPA_transfer ==
  /\ current_video_line < MapLines
  /\ h_transferred' = Append(h_transferred, current_video_line)
  /\ current_video_line' = current_video_line + 1
  /\ UNCHANGED <<map_pixel, map_cell, driverVars, portVars, timedVars,
                 wideVars, clockVars,
                 queueVars, current_scanline, vblank_active, frame_count,
                 timing_error, timerVars, dram, ctlVars, histVars,
                 fn_in, fn_out, drainVars, setup_pc, h_oob, dr, loopVars,
                 origVars, h_row_age>>

NextMap == applyBufferUpdates_locate \/ TIMER1_COMPA_transfer

SpecMap == InitMap /\ [][NextMap]_vars

\* C28 (as claimed): the pixel (x, y) is written to the row the line
\* handler transfers for video line y, at column x.
C28_WriteMatchesScan ==
  (map_cell # <<>> /\ Len(h_transferred) > map_pixel[2])
    => map_cell = <<h_transferred[map_pixel[2] + 1], map_pixel[1]>>

\* ---------------------------------------------------------------------
\* The linear-buffer sketch: stored updates and DRAM writes
\* ---------------------------------------------------------------------

\* C33: every update stored by drawPixel is written to the DRAM exactly
\* once, also when the frame interrupt fires between the store of the entry
\* and the end of update_buffer_index++: no entry is ever written a second
\* time, and no slot is stored over before the entry it held was written.
C33_WrittenExactlyOnce ==
  [][ /\ \A i \in 0..(OrigBufferSize - 1) :
            h_orig_writes'[i] # NoColor => h_orig_writes'[i] <= 1
      /\ (draw_pc = "idle" /\ draw_pc' = "inc")
            => h_orig_writes[draw_index'] # 0 ]_vars

\* ---------------------------------------------------------------------
\* SpecIndex: applyBufferToDRAM's address arithmetic on pairs of pixels
\* ---------------------------------------------------------------------

\* The columns and lines the pairs are drawn from: the corners, the last
\* line whose y * 320 fits an int (102), the first that does not (103), and
\* the pixels around index 65536 (y = 204, x = 255 and 256).
IndexXs == {0, 255, 256, 319}
IndexYs == {0, 102, 103, 204, 239}
IndexPixels == IndexXs \X IndexYs

\* The values an int expression of the sketch can take (16-bit int of the
\* ATmega2560): the exact value when it fits; on signed overflow, which the
\* language leaves undefined, either the value wrapped to 16 bits in two's
\* complement or the exact value kept in a wider intermediate.
IntValues(v) ==
  IF v >= 0 - (UINT16 \div 2) /\ v < UINT16 \div 2
    THEN {v}
    ELSE {v, ((v + (UINT16 \div 2)) % UINT16) - (UINT16 \div 2)}

\* Line 188: unsigned int pixelIndex = update.y * FRAMEBUFFER_WIDTH +
\* update.x; the int result is converted to the 16-bit unsigned int.
pixelIndexValues(x, y) ==
  {s % UINT16 : s \in UNION {IntValues(m + x) :
                              m \in IntValues(y * FRAMEBUFFER_WIDTH)}}

\* Lines 189-191: the row and column writeDram is called with.
OrigCellOf(pixelIndex) == <<pixelIndex \div DRAM_COLS, pixelIndex % DRAM_COLS>>

InitIndex ==
  /\ InitCommon
  /\ TCNT1 = 0 /\ TCNT5 = 0
  /\ fn_in \in {pq \in IndexPixels \X IndexPixels : pq[1] # pq[2]}
  /\ fn_out = "none"
  /\ BenchIdle

\* applyBufferToDRAM's loop body (lines 187-191) for the two entries.
applyBufferToDRAM_locate ==
  /\ fn_out = "none"
  /\ \E i1 \in pixelIndexValues(fn_in[1][1], fn_in[1][2]),
        i2 \in pixelIndexValues(fn_in[2][1], fn_in[2][2]) :
        fn_out' = <<OrigCellOf(i1), OrigCellOf(i2)>>
  /\ UNCHANGED <<queueVars, vgaVars, timerVars, dram, ctlVars, histVars, fn_in,
                 drainVars, auxVars, h_row_age>>

SpecIndex == InitIndex /\ [][applyBufferToDRAM_locate]_vars

\* C34: pixelIndex = y * 320 + x is computed without overflow or
\* truncation for every in-bounds pixel, so that the cell written is
\* (pixelIndex / 512, pixelIndex % 512) of the exact index and two distinct
\* pixels are written to two distinct DRAM cells.
C34_DistinctCells ==
  fn_out # "none"
    => /\ \A k \in 1..2 :
            fn_out[k] = OrigCellOf(fn_in[k][2] * FRAMEBUFFER_WIDTH + fn_in[k][1])
       /\ fn_out[1] # fn_out[2]

\* ---------------------------------------------------------------------
\* SpecWide: drawPixel and the frame handler of
\* mega_edo_fb8_320x240_fix.ino on a ring of the sketch's own size, whose
\* 16-bit indices the 8-bit CPU reads one byte at a time
\* ---------------------------------------------------------------------
wideRest == <<driverVars, portVars, timedVars, mapVars, clockVars,
              update_buffer, update_buffer_write_index,
              update_buffer_read_index, buffer_overflow, timing_error,
              TCNT1, TCNT5, OCF1A, TCCR3B, sam, ctlVars, histVars, fn_in,
              fn_out, drainVars, setup_pc, h_oob, dr, loopVars, origVars,
              h_row_age>>

\* Values of a byte.
BYTE == 256
\* Calls of drawPixel and frame interrupts followed.
WideCalls  == 2
WideFrames == 2
\* The calls made: a pixel of the framebuffer and one outside it.
WideInputs == { <<65, 104, 1>>, <<FRAMEBUFFER_WIDTH, 104, 1>> }
\* Positions of the indices the run is taken up at, after earlier calls
\* and frames: the ring empty, full, and holding 255 or 256 entries.
WideWrites == {0, 256}
WideReads  == {0, 1, 257}

WideNext(i)  == (i + 1) % RING_SIZE
WideUnread(w, r) == (w - r) % RING_SIZE

InitWide ==
  /\ InitShared
  /\ TimedInit
  /\ MapIdle
  /\ ClockInit
  /\ buffer_overflow = FALSE
  /\ frame_count = 0
  /\ timing_error = FALSE
  /\ last_frame = 0
  /\ h_burst_ok = TRUE
  /\ dram = [c \in DramCells |-> 0]
  /\ TCNT1 = 0 /\ TCNT5 = 0
  /\ fn_in = 0 /\ fn_out = "none"
  /\ BenchIdle
  /\ wide_buffer = [i \in 0..(RING_SIZE - 1) |-> [x |-> 65, y |-> 104, color |-> 1]]
  /\ wide_write_index \in WideWrites
  /\ wide_read_index \in WideReads
  /\ wide_overflow = FALSE
  /\ wide_pc = "idle" /\ wide_dp = NoLocals /\ wide_ret = "none"
  /\ wide_isr = "none"
  /\ wide_last_write = <<>>
  /\ wide_calls = 0
  /\ h_wide_max = 0

\* drawPixel, entry: the bounds check and next_index (lines 236-241).
drawPixel_wide_call(x, y, color) ==
  /\ wide_pc = "idle" /\ wide_isr = "none"
  /\ wide_calls < WideCalls
  /\ wide_calls' = wide_calls + 1
  /\ h_wide_max' = WideUnread(wide_write_index, wide_read_index)
  /\ IF OutOfBounds(x, y)
       THEN /\ wide_ret' = "false"
            /\ UNCHANGED <<wide_pc, wide_dp>>
       ELSE /\ wide_dp' = [x |-> x, y |-> y, color |-> color,
                           next_index |-> WideNext(wide_write_index),
                           rd_lo |-> 0]
            /\ wide_pc' = "read_lo"
            /\ wide_ret' = "none"
  /\ UNCHANGED <<wide_buffer, wide_write_index, wide_read_index,
                 wide_overflow, wide_isr, wide_last_write, vgaVars, OCF5A,
                 dram, wideRest>>

\* Line 242, first half: the low byte of update_buffer_read_index is loaded.
drawPixel_wide_read_lo ==
  /\ wide_pc = "read_lo" /\ wide_isr = "none"
  /\ wide_dp' = [wide_dp EXCEPT !.rd_lo = wide_read_index % BYTE]
  /\ wide_pc' = "read_hi"
  /\ UNCHANGED <<wide_buffer, wide_write_index, wide_read_index,
                 wide_overflow, wide_ret, wide_isr, wide_last_write,
                 wide_calls, h_wide_max, vgaVars, OCF5A, dram, wideRest>>

\* Lines 242-245: the high byte is loaded and the comparison made; equal
\* values set buffer_overflow and return false.
drawPixel_wide_compare ==
  /\ wide_pc = "read_hi" /\ wide_isr = "none"
  /\ LET rd == (wide_read_index \div BYTE) * BYTE + wide_dp.rd_lo
     IN  IF wide_dp.next_index = rd
           THEN /\ wide_overflow' = TRUE
                /\ wide_ret' = "false"
                /\ wide_pc' = "idle"
                /\ wide_dp' = NoLocals
           ELSE /\ wide_pc' = "store"
                /\ UNCHANGED <<wide_overflow, wide_ret, wide_dp>>
  /\ UNCHANGED <<wide_buffer, wide_write_index, wide_read_index, wide_isr,
                 wide_last_write, wide_calls, h_wide_max, vgaVars, OCF5A,
                 dram, wideRest>>

\* Lines 248-255: with interrupts disabled, the entry is stored and the
\* write index advanced; returns true.
drawPixel_wide_store ==
  /\ wide_pc = "store" /\ wide_isr = "none"
  /\ wide_buffer' = [wide_buffer EXCEPT ![wide_write_index] =
                       [x |-> wide_dp.x, y |-> wide_dp.y,
                        color |-> wide_dp.color]]
  /\ wide_write_index' = wide_dp.next_index
  /\ wide_ret' = "true"
  /\ wide_pc' = "idle"
  /\ wide_dp' = NoLocals
  /\ h_wide_max' = IF WideUnread(wide_write_index', wide_read_index) > h_wide_max
                     THEN WideUnread(wide_write_index', wide_read_index)
                     ELSE h_wide_max
  /\ UNCHANGED <<wide_read_index, wide_overflow, wide_isr, wide_last_write,
                 wide_calls, vgaVars, OCF5A, dram, wideRest>>

Timer5_match_wide ==
  /\ ~OCF5A
  /\ frame_count < WideFrames
  /\ OCF5A' = TRUE
  /\ UNCHANGED <<wideVars, vgaVars, dram, wideRest>>

\* ISR(TIMER5_COMPA_vect), entry (lines 337-338).
TIMER5_COMPA_wide_enter ==
  /\ wide_isr = "none" /\ OCF5A
  /\ OCF5A' = FALSE
  /\ frame_count' = frame_count + 1
  /\ vblank_active' = TRUE
  /\ wide_isr' = "apply"
  /\ UNCHANGED <<wide_buffer, wide_write_index, wide_read_index,
                 wide_overflow, wide_pc, wide_dp, wide_ret, wide_last_write,
                 wide_calls, h_wide_max, current_scanline,
                 current_video_line, dram, wideRest>>

\* applyBufferUpdates, one pass of the loop body (lines 274-284).
applyBufferUpdates_wide_write ==
  /\ wide_isr = "apply"
  /\ wide_read_index # wide_write_index
  /\ LET args == WriteArgs(wide_buffer[wide_read_index])
     IN  /\ dram' = writeDRAM(dram, args[1], args[2], args[3])
         /\ wide_last_write' = args
  /\ wide_read_index' = WideNext(wide_read_index)
  /\ h_wide_max' = IF WideUnread(wide_write_index, wide_read_index') > h_wide_max
                     THEN WideUnread(wide_write_index, wide_read_index')
                     ELSE h_wide_max
  /\ UNCHANGED <<wide_buffer, wide_write_index, wide_overflow, wide_pc,
                 wide_dp, wide_ret, wide_isr, wide_calls, vgaVars, OCF5A,
                 wideRest>>

\* applyBufferUpdates returns (line 274); lines 344-351: no refresh in the
\* frames followed (frame_count & 0x3F is not 0), the counters are reset and
\* the handler returns.
TIMER5_COMPA_wide_exit ==
  /\ wide_isr = "apply"
  /\ wide_read_index = wide_write_index
  /\ frame_count % REFRESH_FRAMES # 0
  /\ current_scanline' = 0
  /\ current_video_line' = 0
  /\ vblank_active' = FALSE
  /\ wide_isr' = "none"
  /\ UNCHANGED <<wide_buffer, wide_write_index, wide_read_index,
                 wide_overflow, wide_pc, wide_dp, wide_ret, wide_last_write,
                 wide_calls, h_wide_max, frame_count, OCF5A, dram, wideRest>>

NextWide ==
  \/ \E in \in WideInputs : drawPixel_wide_call(in[1], in[2], in[3])
  \/ drawPixel_wide_read_lo
  \/ drawPixel_wide_compare
  \/ drawPixel_wide_store
  \/ Timer5_match_wide
  \/ TIMER5_COMPA_wide_enter
  \/ applyBufferUpdates_wide_write
  \/ TIMER5_COMPA_wide_exit

SpecWide == InitWide /\ [][NextWide]_vars

\* C36: drawPixel returns false with buffer_overflow set, for a pixel of
\* the framebuffer, only if the ring held MAX_UPDATE_BUFFER_SIZE - 1 unread
\* entries at some moment of the call.
C36_OverflowOnlyWhenFull ==
  [][ (wide_pc = "read_hi" /\ wide_pc' = "idle" /\ wide_ret' = "false"
         /\ wide_overflow')
        => h_wide_max = RING_SIZE - 1 ]_vars

\* ---------------------------------------------------------------------
\* SpecAddress: setAddress of src/unnamed/part_005 (lines 120-129) on
\* pairs of addresses
\* ---------------------------------------------------------------------
\* Addresses the pairs are drawn from, and the values PORTC and PORTL hold
\* before the call: all strobes low, or SE high on PORTC bit 4 and RAS, CAS
\* and VSYNC high on PORTL bits 1-3.
PinAddresses == {0, 1, 15, 16, 128, 240, 256, 511}
PortsBefore  == { <<0, 0>>, <<16, 14>> }

\* Lines 122-128: the values the two 8-bit registers are left with.  The
\* right-hand sides are unsigned int; the store keeps their low eight bits.
setAddress_PORTC(portc, address) ==
  BitOr(BitAnd(portc, 240), BitAnd(address, 15)) % BYTE
setAddress_PORTL(portl, address) ==
  BitOr(BitOr(BitAnd(portl, 14), BitAnd(address, 240) * (2 ^ 4)),
        BitAnd(address \div (2 ^ 8), 1)) % BYTE

InitAddress ==
  /\ InitCommon
  /\ TCNT1 = 0 /\ TCNT5 = 0
  /\ fn_in \in { <<q[1], q[2], q[3][1], q[3][2]>> :
                   q \in { t \in PinAddresses \X PinAddresses \X PortsBefore :
                             t[1] # t[2] } }
  /\ fn_out = "none"
  /\ BenchIdle

\* setAddress called with either address of the pair.
setAddress_apply ==
  /\ fn_out = "none"
  /\ fn_out' = << <<setAddress_PORTC(fn_in[3], fn_in[1]),
                    setAddress_PORTL(fn_in[4], fn_in[1])>>,
                  <<setAddress_PORTC(fn_in[3], fn_in[2]),
                    setAddress_PORTL(fn_in[4], fn_in[2])>> >>
  /\ UNCHANGED <<queueVars, vgaVars, timerVars, dram, ctlVars, histVars, fn_in,
                 drainVars, auxVars, h_row_age>>

SpecAddress == InitAddress /\ [][setAddress_apply]_vars

\* The levels of the nine address pins as documented (lines 17-20): A0-A3
\* on PORTC bits 0-3, A4-A7 on PORTL bits 4-7, A8 on PORTL bit 0.
AddressPins(ports) ==
  [a \in 0..8 |-> IF a <= 3 THEN Bit(ports[1], a)
                  ELSE IF a <= 7 THEN Bit(ports[2], a)
                  ELSE Bit(ports[2], 0)]

\* C37: setAddress puts each of the nine address bits on its documented
\* pin, so that two distinct 9-bit addresses give two distinct patterns on
\* the address pins.
C37_AddressOnPins ==
  fn_out # "none"
    => /\ \A k \in 1..2 : \A a \in 0..8 :
            AddressPins(fn_out[k])[a] = Bit(fn_in[k], a)
       /\ AddressPins(fn_out[1]) # AddressPins(fn_out[2])

\* ---------------------------------------------------------------------
\* SpecClock: loop() of mega_edo/fb320x240_2ok.ino (lines 188-196)
\* ---------------------------------------------------------------------
clockRest == <<driverVars, portVars, timedVars, mapVars, wideVars,
               queueVars, vgaVars, timerVars, dram, ctlVars, histVars,
               fn_in, fn_out, drainVars, setup_pc, h_oob, dr, loopVars,
               origVars, h_row_age>>

\* Line 27.
T_REFRESH_CYCLE == 2000
\* Passes of loop() followed, and the microseconds that pass from one test
\* of line 191 to the next.
LoopPasses == 6
PassMicros == {500, 2000, 1000000}

\* millis(): the milliseconds since reset (unsigned long; its wrap after
\* 2^32 ms lies beyond the passes followed).
millis(us) == us \div 1000

\* One pass of loop(), d microseconds after the previous one: lines
\* 190-195.  casBeforeRasRefresh gives the chip one refresh cycle.
loop_2ok(d) ==
  /\ loop_passes < LoopPasses
  /\ loop_passes' = loop_passes + 1
  /\ clock_us' = clock_us + d
  /\ LET currentTime == millis(clock_us')
     IN  IF currentTime - lastRefreshTime >= T_REFRESH_CYCLE
           THEN /\ lastRefreshTime' = currentTime
                /\ refreshCounter' = refreshCounter + 1
                /\ h_since_refresh' = 0
           ELSE /\ h_since_refresh' = h_since_refresh + d
                /\ UNCHANGED <<lastRefreshTime, refreshCounter>>
  /\ UNCHANGED clockRest

NextClock == \E d \in PassMicros : loop_2ok(d)

SpecClock == Init /\ [][NextClock]_vars

\* C38: the main loop issues a refresh cycle whenever at least
\* T_REFRESH_CYCLE, 2000 microseconds, have passed since the previous
\* refresh.
C38_RefreshEvery2000us ==
  [][ (loop_passes' # loop_passes
         /\ h_since_refresh + (clock_us' - clock_us) >= T_REFRESH_CYCLE)
        => refreshCounter' = refreshCounter + 1 ]_vars

\* ---------------------------------------------------------------------
\* SpecPart005: src/unnamed/part_005, the sketch of
\* mega_edo_fb8_320x240.ino with its port functions rewritten in C.
\* drawPixel (lines 265-276), applyBufferToDRAM (286-294), the line
\* handler (300-317) and the frame handler up to the index reset (320-330)
\* read as in that sketch and are taken from its model; casBeforeRasRefresh
\* (209-218) has no loop.
\* ---------------------------------------------------------------------
\* casBeforeRasRefresh (lines 209-218, called at line 333): CAS falls, RAS
\* falls and rises while CAS is low, CAS rises: the chip refreshes one row.
casBeforeRasRefresh_part005 ==
  /\ handler_pc = "refresh" /\ ~LinePending
  /\ refresh_row' = refresh_row + 1
  /\ handler_pc' = "reset"
  /\ UNCHANGED <<fixVars, OCF1A, OCF5A, TCCR3B, orig_buffer,
                 update_buffer_index, vBlank_in_progress, currentScanline,
                 currentRow, sreg_I, apply_i, draw_pc, draw_index,
                 last_writeDram, last_transfer, h_orig_frames,
                 h_orig_writes>>

\* Lines 335-338 and the return from the handler.
TIMER5_COMPA_vect_part005_exit ==
  /\ handler_pc = "reset" /\ ~LinePending
  /\ currentScanline' = 0
  /\ currentRow' = 0
  /\ vBlank_in_progress' = FALSE
  /\ handler_pc' = "none"
  /\ sreg_I' = TRUE
  /\ UNCHANGED <<fixVars, OCF1A, OCF5A, TCCR3B, orig_buffer,
                 update_buffer_index, apply_i, refresh_row, draw_pc,
                 draw_index, last_writeDram, last_transfer, h_orig_frames,
                 h_orig_writes>>

NextPart005 ==
  \/ \E in \in OrigDrawInputs : drawPixel_orig_store(in[1], in[2], in[3])
  \/ \E in \in OrigDrawInputs : drawPixel_orig_skip(in[1], in[2], in[3])
  \/ drawPixel_orig_inc
  \/ Timer1_match_orig
  \/ Timer5_match_orig
  \/ TIMER1_COMPA_vect_orig
  \/ TIMER5_COMPA_vect_orig_enter
  \/ applyBufferToDRAM_pass
  \/ applyBufferToDRAM_return
  \/ casBeforeRasRefresh_part005
  \/ TIMER5_COMPA_vect_part005_exit

SpecPart005 == Init /\ [][NextPart005]_vars

\* C39: the frame handler performs a full refresh during every vertical
\* blank: when it returns, its call of casBeforeRasRefresh has given
\* every one of the DRAM_ROWS rows a refresh cycle.
C39_FullRefreshEachFrame ==
  [][ (handler_pc # "none" /\ handler_pc' = "none")
        => refresh_row = DRAM_ROWS ]_vars

====
